---- MODULE Spec2Model ----
(***************************************************************************)
(* State-machine model of the wheelio call-queue server: the in-memory     *)
(* store (callQueue, salesRepConnections, collaborationSessions), the      *)
(* shopper and sales-rep WebSocket handlers, the REST removal routes and   *)
(* the periodic cleanup.  Node.js runs every handler to completion, so     *)
(* each handler is one atomic action.                                      *)
(***************************************************************************)
EXTENDS Integers, Sequences, FiniteSets, TLC

VARIABLES
  callQueue,              \* Map<shopperId, CallQueueEntry>, in insertion order
  salesRepConnections,    \* Map<salesRepId, SalesRepConnection>, in insertion order
  collaborationSessions,  \* Map<"rep:shopper", CollaborationSession>
  shopperSockets,         \* per /ws/call connection: readyState and currentShopperId
  repSockets,             \* per /ws/calls/monitor connection: readyState and currentSalesRepId
  now,                    \* Date.now()
  sent,                   \* frames written by the handler that ran last, in send order
  steps,                  \* number of handler runs and clock moves so far
  race                    \* two concurrent claim_call frames waiting to be processed

vars == <<callQueue, salesRepConnections, collaborationSessions,
          shopperSockets, repSockets, now, sent, steps, race>>

storeVars == <<callQueue, salesRepConnections, collaborationSessions>>

-----------------------------------------------------------------------------
(* Bounds *)

NumShoppers == 2
NumReps == 2
NumShopperSockets == 2
NumRepSockets == 2
MaxSteps == 8
LiveSteps == 6
SweepSteps == 7

(* Program constants *)

GraceMinutes == 1
MsPerMinute == 60 * 1000
CollabExpireMs == 5 * 60 * 1000
StartTime == 1

ShopperName(i) == CASE i = 1 -> "s1" [] i = 2 -> "s2" [] i = 3 -> "s3" [] OTHER -> "s4"
RepName(i) == CASE i = 1 -> "r1" [] i = 2 -> "r2" [] i = 3 -> "r3" [] OTHER -> "r4"

ShopperIds == {ShopperName(i) : i \in 1..NumShoppers}
RepIds == {RepName(i) : i \in 1..NumReps}
ShopperSocketIds == 1..NumShopperSockets
RepSocketIds == 1..NumRepSockets

(* The instants at which the model lets something happen: the start, one   *)
(* grace window later (exactly, and one millisecond more) and one          *)
(* millisecond more than the collaboration TTL later.                      *)
Instants ==
  {StartTime,
   StartTime + GraceMinutes * MsPerMinute,
   StartTime + GraceMinutes * MsPerMinute + 1,
   StartTime + CollabExpireMs + 1}

(* JavaScript undefined / null *)
Undefined == -1
NoId == "undefined"

Truthy(n) == n # Undefined /\ n # 0

-----------------------------------------------------------------------------
(* Frames.  One record shape for every outbound frame; fields a frame type *)
(* does not carry hold Undefined / NoId / "" / <<>>.                       *)

ToShopper(c) == <<"shopper", c>>
ToRep(c) == <<"rep", c>>

Frame(to, type, shopperId, salesRepId, position, text, queue) ==
  [to |-> to, type |-> type, shopperId |-> shopperId, salesRepId |-> salesRepId,
   position |-> position, text |-> text, queue |-> queue]

Simple(to, type, shopperId, salesRepId) ==
  Frame(to, type, shopperId, salesRepId, Undefined, "", <<>>)

(* an error frame; shopperId is the id its message text names, if any *)
ErrorFrame(to, shopperId, text) == Frame(to, "error", shopperId, NoId, Undefined, text, <<>>)

-----------------------------------------------------------------------------
(* Map helpers: a JavaScript Map keeps its keys in insertion order;        *)
(* set() on a present key keeps its place, delete() removes it.            *)

Has(q, s) == \E i \in DOMAIN q : q[i].shopperId = s
Idx(q, s) == CHOOSE i \in DOMAIN q : q[i].shopperId = s
Get(q, s) == q[Idx(q, s)]
MapSet(q, s, e) == IF Has(q, s) THEN [q EXCEPT ![Idx(q, s)] = e] ELSE Append(q, e)
MapDelete(q, s) == SelectSeq(q, LAMBDA e : e.shopperId # s)

HasRep(m, r) == \E i \in DOMAIN m : m[i].salesRepId = r
RepIdx(m, r) == CHOOSE i \in DOMAIN m : m[i].salesRepId = r

ShopperOpen(c) == shopperSockets[c].readyState = "OPEN"
RepOpen(c) == repSockets[c].readyState = "OPEN"

-----------------------------------------------------------------------------
(* The store (cars.ts, the call-queue service).  Every operator takes the  *)
(* map it reads as a parameter and returns the map after the call.         *)

getCollaborationKey(shopperId, salesRepId) == <<salesRepId, shopperId>>

(* getCallQueueEntry(shopperId)?.assignedSalesRepId *)
AssignedRepOf(q, shopperId) ==
  IF Has(q, shopperId) THEN Get(q, shopperId).assignedSalesRepId ELSE NoId

(* addShopperToQueue that stamps connectedAt on a reconnect as well *)
addShopperToQueue_RestampsConnectedAt(q, shopperId, socket, hasMicrophone, t) ==
  MapSet(q, shopperId,
         [shopperId |-> shopperId,
          shopperSocket |-> socket,
          connectedAt |-> t,
          isConnected |-> TRUE,
          disconnectedAt |-> Undefined,
          assignedSalesRepId |-> AssignedRepOf(q, shopperId),
          hasMicrophone |-> hasMicrophone])

(* addShopperToQueue whose reconnect branch deletes the entry and inserts it *)
(* again, at the end of the map                                            *)
addShopperToQueue_ReinsertsOnReconnect(q, shopperId, socket, hasMicrophone, t) ==
  IF Has(q, shopperId)
    THEN Append(MapDelete(q, shopperId),
                [Get(q, shopperId) EXCEPT !.shopperSocket = socket,
                                          !.isConnected = TRUE,
                                          !.disconnectedAt = Undefined,
                                          !.hasMicrophone = hasMicrophone])
    ELSE MapSet(q, shopperId,
                [shopperId |-> shopperId,
                 shopperSocket |-> socket,
                 connectedAt |-> t,
                 isConnected |-> TRUE,
                 disconnectedAt |-> Undefined,
                 assignedSalesRepId |-> NoId,
                 hasMicrophone |-> hasMicrophone])

(* addShopperToQueue whose reconnect branch keeps disconnectedAt *)
addShopperToQueue_KeepsDisconnectedAt(q, shopperId, socket, hasMicrophone, t) ==
  IF Has(q, shopperId)
    THEN MapSet(q, shopperId,
                [Get(q, shopperId) EXCEPT !.shopperSocket = socket,
                                          !.isConnected = TRUE,
                                          !.hasMicrophone = hasMicrophone])
    ELSE MapSet(q, shopperId,
                [shopperId |-> shopperId,
                 shopperSocket |-> socket,
                 connectedAt |-> t,
                 isConnected |-> TRUE,
                 disconnectedAt |-> Undefined,
                 assignedSalesRepId |-> NoId,
                 hasMicrophone |-> hasMicrophone])

addShopperToQueue(q, shopperId, socket, hasMicrophone, t) ==
  IF Has(q, shopperId)
    THEN MapSet(q, shopperId,
                [Get(q, shopperId) EXCEPT !.shopperSocket = socket,
                                          !.isConnected = TRUE,
                                          !.disconnectedAt = Undefined,
                                          !.hasMicrophone = hasMicrophone])
    ELSE MapSet(q, shopperId,
                [shopperId |-> shopperId,
                 shopperSocket |-> socket,
                 connectedAt |-> t,
                 isConnected |-> TRUE,
                 disconnectedAt |-> Undefined,
                 assignedSalesRepId |-> NoId,
                 hasMicrophone |-> hasMicrophone])

(* markShopperDisconnected that also drops the assignment *)
markShopperDisconnected_ClearsAssignment(q, shopperId, t) ==
  IF ~Has(q, shopperId) THEN q
  ELSE MapSet(q, shopperId,
              [Get(q, shopperId) EXCEPT !.isConnected = FALSE, !.disconnectedAt = t,
                                        !.assignedSalesRepId = NoId])

markShopperDisconnected(q, shopperId, t) ==
  IF ~Has(q, shopperId) THEN q
  ELSE MapSet(q, shopperId,
              [Get(q, shopperId) EXCEPT !.isConnected = FALSE, !.disconnectedAt = t])

removeShopperFromQueue(q, shopperId) == MapDelete(q, shopperId)

addSalesRepConnection(m, salesRepId, socket) ==
  IF HasRep(m, salesRepId)
    THEN [m EXCEPT ![RepIdx(m, salesRepId)] = [salesRepId |-> salesRepId, socket |-> socket]]
    ELSE Append(m, [salesRepId |-> salesRepId, socket |-> socket])

removeSalesRepConnection(m, salesRepId) == SelectSeq(m, LAMBDA c : c.salesRepId # salesRepId)

(* isSalesRepBusy that looks at connected shoppers only *)
isSalesRepBusy_ConnectedOnly(q, salesRepId) ==
  \E i \in DOMAIN q : q[i].isConnected /\ q[i].assignedSalesRepId = salesRepId

isSalesRepBusy(q, salesRepId) ==
  \E i \in DOMAIN q : q[i].assignedSalesRepId = salesRepId

(* The first entry, in iteration order, assigned to the rep; NoId for null *)
getSalesRepCurrentCall(q, salesRepId) ==
  IF \E i \in DOMAIN q : q[i].assignedSalesRepId = salesRepId
    THEN LET first == CHOOSE i \in DOMAIN q :
                        /\ q[i].assignedSalesRepId = salesRepId
                        /\ \A j \in DOMAIN q : q[j].assignedSalesRepId = salesRepId => i <= j
         IN q[first].shopperId
    ELSE NoId

(* the guards of assignCallToSalesRep without the busy check *)
assignSucceeds_NoBusyCheck(q, shopperId, salesRepId) ==
  /\ Has(q, shopperId)
  /\ ~(/\ Get(q, shopperId).assignedSalesRepId # NoId
       /\ Get(q, shopperId).assignedSalesRepId # salesRepId)

(* the guards of assignCallToSalesRep without the already-claimed check *)
assignSucceeds_NoClaimedCheck(q, shopperId, salesRepId) ==
  /\ Has(q, shopperId)
  /\ ~(/\ isSalesRepBusy(q, salesRepId)
       /\ Get(q, shopperId).assignedSalesRepId # salesRepId)

(* the guards of assignCallToSalesRep with a busy check that makes no      *)
(* exception for the shopper the representative already has                *)
assignSucceeds_BusyWithOwnCall(q, shopperId, salesRepId) ==
  /\ Has(q, shopperId)
  /\ ~(/\ Get(q, shopperId).assignedSalesRepId # NoId
       /\ Get(q, shopperId).assignedSalesRepId # salesRepId)
  /\ ~isSalesRepBusy(q, salesRepId)

(* assignCallToSalesRep returns an entry (TRUE) or null (FALSE) *)
assignSucceeds(q, shopperId, salesRepId) ==
  /\ Has(q, shopperId)
  /\ ~(/\ Get(q, shopperId).assignedSalesRepId # NoId
       /\ Get(q, shopperId).assignedSalesRepId # salesRepId)
  /\ ~(/\ isSalesRepBusy(q, salesRepId)
       /\ Get(q, shopperId).assignedSalesRepId # salesRepId)

(* assignCallToSalesRep that builds updatedEntry but does not store it *)
assignCallToSalesRep_NotStored(q, shopperId, salesRepId) == q

assignCallToSalesRep(q, shopperId, salesRepId) ==
  IF assignSucceeds(q, shopperId, salesRepId)
    THEN MapSet(q, shopperId, [Get(q, shopperId) EXCEPT !.assignedSalesRepId = salesRepId])
    ELSE q

(* the opaque SDP offers a claim_call frame may carry *)
SdpOffers == {"offerA", "offerB"}

(* a call_answered frame: besides the common fields it carries the offer *)
CallAnswered(to, salesRepId, sdpOffer) ==
  Simple(to, "call_answered", NoId, salesRepId) @@ [sdpOffer |-> sdpOffer]

(* assignCallToSalesRep that always hands the shopper the same offer *)
assignFrames_StaleOffer(q, shopperId, salesRepId, sdpOffer) ==
  IF assignSucceeds(q, shopperId, salesRepId) /\ ShopperOpen(Get(q, shopperId).shopperSocket)
    THEN <<CallAnswered(ToShopper(Get(q, shopperId).shopperSocket), salesRepId, "offerA")>>
    ELSE <<>>

(* the call_answered frame assignCallToSalesRep writes to the entry's socket *)
assignFrames(q, shopperId, salesRepId, sdpOffer) ==
  IF assignSucceeds(q, shopperId, salesRepId) /\ ShopperOpen(Get(q, shopperId).shopperSocket)
    THEN <<CallAnswered(ToShopper(Get(q, shopperId).shopperSocket), salesRepId, sdpOffer)>>
    ELSE <<>>

(* getShopperQueuePosition whose filter keeps the assigned entries *)
getShopperQueuePosition_CountsAssigned(q, shopperId) ==
  LET Waiting(i) == q[i].isConnected
      Before(i, j) == \/ q[i].connectedAt < q[j].connectedAt
                      \/ q[i].connectedAt = q[j].connectedAt /\ i < j
  IN IF Has(q, shopperId) /\ Waiting(Idx(q, shopperId))
       THEN 1 + Cardinality({i \in DOMAIN q : Waiting(i) /\ Before(i, Idx(q, shopperId))})
       ELSE 0

(* rank in the waiting line: filter, stable sort by connectedAt, findIndex + 1 *)
getShopperQueuePosition(q, shopperId) ==
  LET Waiting(i) == q[i].isConnected /\ q[i].assignedSalesRepId = NoId
      Before(i, j) == \/ q[i].connectedAt < q[j].connectedAt
                      \/ q[i].connectedAt = q[j].connectedAt /\ i < j
  IN IF Has(q, shopperId) /\ Waiting(Idx(q, shopperId))
       THEN 1 + Cardinality({i \in DOMAIN q : Waiting(i) /\ Before(i, Idx(q, shopperId))})
       ELSE 0

releaseSucceeds(q, shopperId) == Has(q, shopperId)

(* releaseCallFromSalesRep that puts the released shopper at the back of   *)
(* the line by stamping connectedAt again                                  *)
releaseCallFromSalesRep_RestampsConnectedAt(q, shopperId) ==
  IF releaseSucceeds(q, shopperId)
    THEN MapSet(q, shopperId, [Get(q, shopperId) EXCEPT !.assignedSalesRepId = NoId,
                                                        !.connectedAt = now])
    ELSE q

releaseCallFromSalesRep(q, shopperId) ==
  IF releaseSucceeds(q, shopperId)
    THEN MapSet(q, shopperId, [Get(q, shopperId) EXCEPT !.assignedSalesRepId = NoId])
    ELSE q

(* releaseCallFromSalesRep that computes the position before it stores the *)
(* released entry                                                          *)
releaseFrames_PositionBeforeRelease(q, shopperId) ==
  IF releaseSucceeds(q, shopperId) /\ ShopperOpen(Get(q, shopperId).shopperSocket)
    THEN <<Frame(ToShopper(Get(q, shopperId).shopperSocket), "call_released", NoId,
                 Get(q, shopperId).assignedSalesRepId,
                 getShopperQueuePosition(q, shopperId),
                 "", <<>>)>>
    ELSE <<>>

(* the call_released frame releaseCallFromSalesRep writes to the entry's socket *)
releaseFrames(q, shopperId) ==
  IF releaseSucceeds(q, shopperId) /\ ShopperOpen(Get(q, shopperId).shopperSocket)
    THEN <<Frame(ToShopper(Get(q, shopperId).shopperSocket), "call_released", NoId,
                 Get(q, shopperId).assignedSalesRepId,
                 getShopperQueuePosition(releaseCallFromSalesRep(q, shopperId), shopperId),
                 "", <<>>)>>
    ELSE <<>>

(* getCallQueueSummary that leaves out the entries marked disconnected *)
getCallQueueSummary_ConnectedOnly(q, t) ==
  LET live == SelectSeq(q, LAMBDA e : e.isConnected)
  IN [i \in DOMAIN live |->
        [shopperId |-> live[i].shopperId,
         connectedAt |-> live[i].connectedAt,
         disconnectedAt |-> live[i].disconnectedAt,
         isConnected |-> live[i].isConnected,
         timeSinceDisconnectedSeconds |-> Undefined,
         assignedSalesRepId |-> live[i].assignedSalesRepId,
         hasMicrophone |-> live[i].hasMicrophone]]

getCallQueueSummary(q, t) ==
  [i \in DOMAIN q |->
     [shopperId |-> q[i].shopperId,
      connectedAt |-> q[i].connectedAt,
      disconnectedAt |-> q[i].disconnectedAt,
      isConnected |-> q[i].isConnected,
      timeSinceDisconnectedSeconds |->
        IF Truthy(q[i].disconnectedAt) THEN (t - q[i].disconnectedAt) \div 1000 ELSE Undefined,
      assignedSalesRepId |-> q[i].assignedSalesRepId,
      hasMicrophone |-> q[i].hasMicrophone]]

QueueUpdate(to, q, t) ==
  Frame(to, "queue_update", NoId, NoId, Undefined, "", getCallQueueSummary(q, t))

(* broadcastQueueUpdate that stops after the first registered connection *)
broadcastQueueUpdate_FirstOnly(q, m, t) ==
  LET open == SelectSeq(m, LAMBDA c : RepOpen(c.socket))
  IN [i \in DOMAIN open \cap {1} |-> Frame(ToRep(open[i].socket), "queue_update", NoId, NoId,
                                           Undefined, "", getCallQueueSummary(q, t))]

(* one queue_update per registered connection whose socket is OPEN, in     *)
(* registry order                                                          *)
broadcastQueueUpdate(q, m, t) ==
  LET open == SelectSeq(m, LAMBDA c : RepOpen(c.socket))
  IN [i \in DOMAIN open |-> QueueUpdate(ToRep(open[i].socket), q, t)]

getSalesRepSocket(m, salesRepId) ==
  IF HasRep(m, salesRepId) THEN m[RepIdx(m, salesRepId)].socket ELSE 0

getShopperSocket(q, shopperId) ==
  IF Has(q, shopperId) THEN Get(q, shopperId).shopperSocket ELSE 0

(* cleanupOldDisconnectedCalls that already evicts at exactly the maximum age *)
cleanupOldDisconnectedCalls_AtMaxAge(q, maxAgeMinutes, t) ==
  SelectSeq(q, LAMBDA e :
    ~(/\ ~e.isConnected
      /\ Truthy(e.disconnectedAt)
      /\ t - e.disconnectedAt >= maxAgeMinutes * MsPerMinute))

(* cleanupOldDisconnectedCalls that takes the age in seconds for milliseconds *)
cleanupOldDisconnectedCalls_WrongUnit(q, maxAgeMinutes, t) ==
  SelectSeq(q, LAMBDA e :
    ~(/\ ~e.isConnected
      /\ Truthy(e.disconnectedAt)
      /\ (t - e.disconnectedAt) \div 1000 > maxAgeMinutes * MsPerMinute))

cleanupOldDisconnectedCalls(q, maxAgeMinutes, t) ==
  SelectSeq(q, LAMBDA e :
    ~(/\ ~e.isConnected
      /\ Truthy(e.disconnectedAt)
      /\ t - e.disconnectedAt > maxAgeMinutes * MsPerMinute))

(* collaboration sessions; endCollaboration is exported by the store but no *)
(* handler, route or timer calls it                                        *)

HasSession(cs, shopperId, salesRepId) ==
  getCollaborationKey(shopperId, salesRepId) \in DOMAIN cs

SessionStatus(cs, shopperId, salesRepId) ==
  IF HasSession(cs, shopperId, salesRepId)
    THEN cs[getCollaborationKey(shopperId, salesRepId)].status
    ELSE "none"

PutSession(cs, key, session) ==
  [k \in DOMAIN cs \cup {key} |-> IF k = key THEN session ELSE cs[k]]

(* the guards of requestCollaboration without the pending check *)
requestSucceeds_NoPendingCheck(q, cs, shopperId, salesRepId) ==
  /\ Has(q, shopperId)
  /\ Get(q, shopperId).assignedSalesRepId = salesRepId

requestSucceeds(q, cs, shopperId, salesRepId) ==
  /\ Has(q, shopperId)
  /\ Get(q, shopperId).assignedSalesRepId = salesRepId
  /\ SessionStatus(cs, shopperId, salesRepId) # "pending"

requestCollaboration(q, cs, shopperId, salesRepId, t) ==
  IF requestSucceeds(q, cs, shopperId, salesRepId)
    THEN PutSession(cs, getCollaborationKey(shopperId, salesRepId),
                    [shopperId |-> shopperId, salesRepId |-> salesRepId,
                     status |-> "pending", requestedAt |-> t, respondedAt |-> Undefined])
    ELSE cs

(* respondToCollaboration that only checks that the session exists *)
respondSucceeds_AnyStatus(cs, shopperId, salesRepId) ==
  HasSession(cs, shopperId, salesRepId)

respondSucceeds(cs, shopperId, salesRepId) ==
  SessionStatus(cs, shopperId, salesRepId) = "pending"

respondToCollaboration(cs, shopperId, salesRepId, accepted, t) ==
  IF respondSucceeds(cs, shopperId, salesRepId)
    THEN [cs EXCEPT ![getCollaborationKey(shopperId, salesRepId)] =
            [@ EXCEPT !.status = IF accepted THEN "accepted" ELSE "rejected",
                      !.respondedAt = t]]
    ELSE cs

endCollaboration(cs, shopperId, salesRepId) ==
  IF HasSession(cs, shopperId, salesRepId)
    THEN [cs EXCEPT ![getCollaborationKey(shopperId, salesRepId)] = [@ EXCEPT !.status = "ended"]]
    ELSE cs

(* cleanupExpiredCollaborationRequests that already sweeps at exactly the TTL *)
cleanupExpiredCollaborationRequests_AtTtl(cs, t) ==
  LET keep == {k \in DOMAIN cs :
                 ~(cs[k].status = "pending" /\ t - cs[k].requestedAt >= CollabExpireMs)}
  IN [k \in keep |-> cs[k]]

cleanupExpiredCollaborationRequests(cs, t) ==
  LET keep == {k \in DOMAIN cs :
                 ~(cs[k].status = "pending" /\ t - cs[k].requestedAt > CollabExpireMs)}
  IN [k \in keep |-> cs[k]]

-----------------------------------------------------------------------------
Idle == race.shopperId = NoId

(* every handler run and every clock move uses up one step of the budget *)
CountStep == steps < MaxSteps /\ steps' = steps + 1

(* while two racing claim_call frames are being handled, nothing else runs *)
Turn == Idle /\ CountStep

InitExceptSteps ==
  /\ callQueue = <<>>
  /\ salesRepConnections = <<>>
  /\ collaborationSessions = <<>>
  /\ shopperSockets = [c \in ShopperSocketIds |-> [readyState |-> "NEW", currentShopperId |-> NoId]]
  /\ repSockets = [c \in RepSocketIds |-> [readyState |-> "NEW", currentSalesRepId |-> NoId]]
  /\ now = StartTime
  /\ sent = <<>>
  /\ race = [shopperId |-> NoId, pending |-> {}, claimed |-> {}, errors |-> {}]

Init ==
  /\ InitExceptSteps
  /\ steps = 0

-----------------------------------------------------------------------------
(* Shopper channel, /ws/call (shopper-ws.ts) *)

(* a new connection is accepted: the handler sends the acknowledgment *)
ShopperAccept(c) ==
  /\ Turn
  /\ shopperSockets[c].readyState = "NEW"
  /\ \A d \in ShopperSocketIds : d < c => shopperSockets[d].readyState # "NEW"
  /\ shopperSockets' = [shopperSockets EXCEPT ![c].readyState = "OPEN"]
  /\ sent' = <<Simple(ToShopper(c), "connected", NoId, NoId)>>
  /\ UNCHANGED <<storeVars, repSockets, now, race>>

(* data.mediaCapabilities?.hasAudioInput === true: the capabilities are     *)
(* those of the device behind the connection                               *)
HasAudioInput(c) == c % 2 = 1

JoinQueue(c, shopperId) ==
  /\ Turn
  /\ ShopperOpen(c)
  /\ shopperSockets' = [shopperSockets EXCEPT ![c].currentShopperId = shopperId]
  /\ callQueue' = addShopperToQueue(callQueue, shopperId, c, HasAudioInput(c), now)
  /\ sent' = <<Frame(ToShopper(c), "queue_joined", shopperId, NoId,
                     getShopperQueuePosition(callQueue', shopperId), "", <<>>)>>
               \o broadcastQueueUpdate(callQueue', salesRepConnections, now)
  /\ UNCHANGED <<salesRepConnections, collaborationSessions, repSockets, now, race>>

LeaveQueue(c, shopperId) ==
  /\ Turn
  /\ ShopperOpen(c)
  /\ callQueue' = removeShopperFromQueue(callQueue, shopperId)
  /\ sent' = <<Simple(ToShopper(c), "queue_left", shopperId, NoId)>>
               \o broadcastQueueUpdate(callQueue', salesRepConnections, now)
  /\ UNCHANGED <<salesRepConnections, collaborationSessions, shopperSockets, repSockets, now, race>>

EndCall(c, shopperId) ==
  /\ Turn
  /\ ShopperOpen(c)
  /\ LET previous == AssignedRepOf(callQueue, shopperId)
         repSocket == getSalesRepSocket(salesRepConnections, previous)
     IN IF previous # NoId
          THEN /\ callQueue' = releaseCallFromSalesRep(callQueue, shopperId)
               /\ sent' = releaseFrames(callQueue, shopperId)
                            \o (IF repSocket # 0 /\ RepOpen(repSocket)
                                  THEN <<Simple(ToRep(repSocket), "call_ended_by_shopper",
                                                shopperId, previous)>>
                                  ELSE <<>>)
                            \o <<Simple(ToShopper(c), "call_ended", shopperId, NoId)>>
                            \o broadcastQueueUpdate(callQueue', salesRepConnections, now)
          ELSE /\ callQueue' = callQueue
               /\ sent' = <<>>
  /\ UNCHANGED <<salesRepConnections, collaborationSessions, shopperSockets, repSockets, now, race>>

(* the relay that picks the first registered representative instead of the *)
(* one the entry is assigned to                                            *)
ShopperRelay_FirstRegistered(c, shopperId, type, notAvailable, notAssigned) ==
  LET assigned == AssignedRepOf(callQueue, shopperId)
      salesRepSocket == IF salesRepConnections = <<>> THEN 0 ELSE salesRepConnections[1].socket
  IN IF assigned = NoId
       THEN <<ErrorFrame(ToShopper(c), NoId, notAssigned)>>
     ELSE IF salesRepSocket # 0 /\ RepOpen(salesRepSocket)
       THEN <<Simple(ToRep(salesRepSocket), type, shopperId, assigned)>>
     ELSE <<ErrorFrame(ToShopper(c), NoId, notAvailable)>>

(* what the sdp_answer and the ice_candidate handler both do: look up the   *)
(* entry named by the frame and relay to its assigned representative       *)
ShopperRelay(c, shopperId, type, notAvailable, notAssigned) ==
  LET assigned == AssignedRepOf(callQueue, shopperId)
      salesRepSocket == getSalesRepSocket(salesRepConnections, assigned)
  IN IF assigned = NoId
       THEN <<ErrorFrame(ToShopper(c), NoId, notAssigned)>>
     ELSE IF salesRepSocket # 0 /\ RepOpen(salesRepSocket)
       THEN <<Simple(ToRep(salesRepSocket), type, shopperId, assigned)>>
     ELSE <<ErrorFrame(ToShopper(c), NoId, notAvailable)>>

SdpAnswer(c, shopperId) ==
  /\ Turn
  /\ ShopperOpen(c)
  /\ sent' = ShopperRelay(c, shopperId, "sdp_answer",
                          "Sales representative is not available",
                          "No sales representative assigned to your call")
  /\ UNCHANGED <<storeVars, shopperSockets, repSockets, now, race>>

ShopperIceCandidate(c, shopperId) ==
  /\ Turn
  /\ ShopperOpen(c)
  /\ sent' = ShopperRelay(c, shopperId, "ice_candidate",
                          "Sales representative is not available for connection",
                          "No sales representative assigned for connection setup")
  /\ UNCHANGED <<storeVars, shopperSockets, repSockets, now, race>>

CollaborationResponse(c, salesRepId, accepted) ==
  /\ Turn
  /\ ShopperOpen(c)
  /\ LET current == shopperSockets[c].currentShopperId
         ok == respondSucceeds(collaborationSessions, current, salesRepId)
         repSocket == getSalesRepSocket(salesRepConnections, salesRepId)
         status == IF accepted THEN "accepted" ELSE "rejected"
     IN IF current = NoId
          THEN /\ collaborationSessions' = collaborationSessions
               /\ sent' = <<>>
          ELSE /\ collaborationSessions' =
                    respondToCollaboration(collaborationSessions, current, salesRepId, accepted, now)
               /\ sent' =
                    IF ~ok
                      THEN <<ErrorFrame(ToShopper(c), NoId,
                               "Collaboration request not found or already responded to")>>
                    ELSE IF repSocket # 0 /\ RepOpen(repSocket)
                      THEN <<Frame(ToRep(repSocket), "collaboration_status", current, salesRepId,
                                   Undefined, status, <<>>),
                             Frame(ToShopper(c), "collaboration_status", current, salesRepId,
                                   Undefined, status, <<>>)>>
                    ELSE <<ErrorFrame(ToShopper(c), NoId, "Sales representative is not connected")>>
  /\ UNCHANGED <<callQueue, salesRepConnections, shopperSockets, repSockets, now, race>>

(* what the 'close' and the 'error' handler both do *)
ShopperGone(c) ==
  LET current == shopperSockets[c].currentShopperId
  IN IF current # NoId
       THEN /\ callQueue' = markShopperDisconnected(callQueue, current, now)
            /\ sent' = broadcastQueueUpdate(callQueue', salesRepConnections, now)
       ELSE /\ callQueue' = callQueue
            /\ sent' = <<>>

(* socket.on('error'): the socket fails; 'close' follows later *)
ShopperError(c) ==
  /\ Turn
  /\ ShopperOpen(c)
  /\ ShopperGone(c)
  /\ shopperSockets' = [shopperSockets EXCEPT ![c].readyState = "CLOSING"]
  /\ UNCHANGED <<salesRepConnections, collaborationSessions, repSockets, now, race>>

(* socket.on('close') *)
ShopperClose(c) ==
  /\ Turn
  /\ shopperSockets[c].readyState \in {"OPEN", "CLOSING"}
  /\ ShopperGone(c)
  /\ shopperSockets' = [shopperSockets EXCEPT ![c].readyState = "CLOSED"]
  /\ UNCHANGED <<salesRepConnections, collaborationSessions, repSockets, now, race>>

-----------------------------------------------------------------------------
(* Sales-rep channel, /ws/calls/monitor (sales-rep-ws.ts) *)

RepAccept(c) ==
  /\ Turn
  /\ repSockets[c].readyState = "NEW"
  /\ \A d \in RepSocketIds : d < c => repSockets[d].readyState # "NEW"
  /\ repSockets' = [repSockets EXCEPT ![c].readyState = "OPEN"]
  /\ sent' = <<Simple(ToRep(c), "connected", NoId, NoId)>>
  /\ UNCHANGED <<storeVars, shopperSockets, now, race>>

Connect(c, salesRepId) ==
  /\ Turn
  /\ RepOpen(c)
  /\ repSockets' = [repSockets EXCEPT ![c].currentSalesRepId = salesRepId]
  /\ salesRepConnections' = addSalesRepConnection(salesRepConnections, salesRepId, c)
  /\ sent' = <<QueueUpdate(ToRep(c), callQueue, now),
               Simple(ToRep(c), "connected", NoId, salesRepId)>>
  /\ UNCHANGED <<callQueue, collaborationSessions, shopperSockets, now, race>>

(* the claim_call handler for a frame that carries sdpOffer *)
ClaimCallWith(c, shopperId, sdpOffer) ==
  /\ CountStep
  /\ RepOpen(c)
  /\ LET current == repSockets[c].currentSalesRepId
     IN IF current = NoId
          THEN /\ callQueue' = callQueue
               /\ sent' = <<>>
          ELSE /\ callQueue' = assignCallToSalesRep(callQueue, shopperId, current)
               /\ sent' =
                    IF assignSucceeds(callQueue, shopperId, current)
                      THEN assignFrames(callQueue, shopperId, current, sdpOffer)
                             \o <<Simple(ToRep(c), "call_claimed", shopperId, current)>>
                             \o broadcastQueueUpdate(callQueue', salesRepConnections, now)
                      ELSE <<ErrorFrame(ToRep(c), shopperId, "not found or already claimed")>>
  /\ UNCHANGED <<salesRepConnections, collaborationSessions, shopperSockets, repSockets, now>>

(* the claim_call handler, without the bookkeeping of the race *)
ClaimCallHandler(c, shopperId) ==
  \E sdpOffer \in SdpOffers : ClaimCallWith(c, shopperId, sdpOffer)

ClaimCall(c, shopperId) ==
  /\ Idle
  /\ ClaimCallHandler(c, shopperId)
  /\ UNCHANGED race

ReleaseCall(c, shopperId) ==
  /\ Turn
  /\ RepOpen(c)
  /\ LET current == repSockets[c].currentSalesRepId
     IN IF current = NoId
          THEN /\ callQueue' = callQueue
               /\ sent' = <<>>
          ELSE /\ callQueue' = releaseCallFromSalesRep(callQueue, shopperId)
               /\ sent' =
                    IF releaseSucceeds(callQueue, shopperId)
                      THEN releaseFrames(callQueue, shopperId)
                             \o <<Simple(ToRep(c), "call_released", shopperId, current)>>
                             \o broadcastQueueUpdate(callQueue', salesRepConnections, now)
                      ELSE <<ErrorFrame(ToRep(c), shopperId, "not found")>>
  /\ UNCHANGED <<salesRepConnections, collaborationSessions, shopperSockets, repSockets, now, race>>

(* the ice_candidate handler without the check that the sender owns the call *)
RepIceCandidate_NoOwnerCheck(c, shopperId) ==
  /\ Turn
  /\ RepOpen(c)
  /\ LET current == repSockets[c].currentSalesRepId
         shopperSocket == getShopperSocket(callQueue, shopperId)
     IN sent' =
          IF current = NoId
            THEN <<>>
          ELSE IF ~Has(callQueue, shopperId)
            THEN <<ErrorFrame(ToRep(c), shopperId, "Not assigned to shopper")>>
          ELSE IF ShopperOpen(shopperSocket)
            THEN <<Simple(ToShopper(shopperSocket), "ice_candidate", shopperId, current)>>
          ELSE <<>>
  /\ UNCHANGED <<storeVars, shopperSockets, repSockets, now, race>>

RepIceCandidate(c, shopperId) ==
  /\ Turn
  /\ RepOpen(c)
  /\ LET current == repSockets[c].currentSalesRepId
         shopperSocket == getShopperSocket(callQueue, shopperId)
     IN sent' =
          IF current = NoId
            THEN <<>>
          ELSE IF AssignedRepOf(callQueue, shopperId) # current
            THEN <<ErrorFrame(ToRep(c), shopperId, "Not assigned to shopper")>>
          ELSE IF ShopperOpen(shopperSocket)
            THEN <<Simple(ToShopper(shopperSocket), "ice_candidate", shopperId, current)>>
          ELSE <<>>
  /\ UNCHANGED <<storeVars, shopperSockets, repSockets, now, race>>

RequestCollaboration(c, shopperId) ==
  /\ Turn
  /\ RepOpen(c)
  /\ LET current == repSockets[c].currentSalesRepId
         ok == requestSucceeds(callQueue, collaborationSessions, shopperId, current)
         shopperSocket == getShopperSocket(callQueue, shopperId)
     IN IF current = NoId
          THEN /\ collaborationSessions' = collaborationSessions
               /\ sent' = <<>>
          ELSE /\ collaborationSessions' =
                    requestCollaboration(callQueue, collaborationSessions, shopperId, current, now)
               /\ sent' =
                    IF ~ok
                      THEN <<ErrorFrame(ToRep(c), NoId,
                               "Cannot request collaboration - call not found or request already pending")>>
                    ELSE IF shopperSocket # 0 /\ ShopperOpen(shopperSocket)
                      THEN <<Simple(ToShopper(shopperSocket), "collaboration_request",
                                    shopperId, current),
                             Frame(ToRep(c), "collaboration_status", shopperId, current,
                                   Undefined, "pending", <<>>)>>
                    ELSE <<ErrorFrame(ToRep(c), NoId, "Shopper is not connected")>>
  /\ UNCHANGED <<callQueue, salesRepConnections, shopperSockets, repSockets, now, race>>

(* a close that leaves the representative in the registry *)
RepGone_KeepsRegistration(c) ==
  /\ salesRepConnections' = salesRepConnections
  /\ sent' = <<>>

(* what the 'close' and the 'error' handler both do *)
RepGone(c) ==
  LET current == repSockets[c].currentSalesRepId
  IN /\ salesRepConnections' =
          IF current # NoId THEN removeSalesRepConnection(salesRepConnections, current)
                            ELSE salesRepConnections
     /\ sent' = <<>>

RepError(c) ==
  /\ Turn
  /\ RepOpen(c)
  /\ RepGone(c)
  /\ repSockets' = [repSockets EXCEPT ![c].readyState = "CLOSING"]
  /\ UNCHANGED <<callQueue, collaborationSessions, shopperSockets, now, race>>

RepClose(c) ==
  /\ Turn
  /\ repSockets[c].readyState \in {"OPEN", "CLOSING"}
  /\ RepGone(c)
  /\ repSockets' = [repSockets EXCEPT ![c].readyState = "CLOSED"]
  /\ UNCHANGED <<callQueue, collaborationSessions, shopperSockets, now, race>>

-----------------------------------------------------------------------------
(* REST routes (call-queue.ts) *)

MaxAgeInputs == {0}

(* DELETE /call-queue/remove/:shopperId *)
RestRemove(shopperId) ==
  /\ Turn
  /\ callQueue' = removeShopperFromQueue(callQueue, shopperId)
  /\ sent' = IF Has(callQueue, shopperId)
               THEN broadcastQueueUpdate(callQueue', salesRepConnections, now)
               ELSE <<>>
  /\ UNCHANGED <<salesRepConnections, collaborationSessions, shopperSockets, repSockets, now, race>>

(* DELETE /call-queue/cleanup?maxAgeMinutes= *)
RestCleanup(maxAgeMinutes) ==
  /\ Turn
  /\ callQueue' = cleanupOldDisconnectedCalls(callQueue, maxAgeMinutes, now)
  /\ sent' = broadcastQueueUpdate(callQueue', salesRepConnections, now)
  /\ UNCHANGED <<salesRepConnections, collaborationSessions, shopperSockets, repSockets, now, race>>

-----------------------------------------------------------------------------
(* a callback that sweeps the call queue only *)
CleanupCallback_SkipsSessions ==
  /\ callQueue' = cleanupOldDisconnectedCalls(callQueue, GraceMinutes, now)
  /\ collaborationSessions' = collaborationSessions
  /\ sent' = IF Len(callQueue') < Len(callQueue)
               THEN broadcastQueueUpdate(callQueue', salesRepConnections, now)
               ELSE <<>>
  /\ UNCHANGED <<salesRepConnections, shopperSockets, repSockets, now, race>>

(* a callback that tells the representative of an evicted shopper *)
CleanupCallback_NotifiesRep ==
  /\ callQueue' = cleanupOldDisconnectedCalls(callQueue, GraceMinutes, now)
  /\ collaborationSessions' = cleanupExpiredCollaborationRequests(collaborationSessions, now)
  /\ sent' = IF Len(callQueue') < Len(callQueue)
               THEN [i \in DOMAIN salesRepConnections |->
                       Simple(ToRep(salesRepConnections[i].socket), "call_lost", NoId,
                              salesRepConnections[i].salesRepId)]
                    \o broadcastQueueUpdate(callQueue', salesRepConnections, now)
               ELSE <<>>
  /\ UNCHANGED <<salesRepConnections, shopperSockets, repSockets, now, race>>

(* The setInterval callback of startPeriodicCleanup *)
CleanupCallback ==
  /\ callQueue' = cleanupOldDisconnectedCalls(callQueue, GraceMinutes, now)
  /\ collaborationSessions' = cleanupExpiredCollaborationRequests(collaborationSessions, now)
  /\ sent' = IF Len(callQueue') < Len(callQueue)
               THEN broadcastQueueUpdate(callQueue', salesRepConnections, now)
               ELSE <<>>
  /\ UNCHANGED <<salesRepConnections, shopperSockets, repSockets, now, race>>

PeriodicCleanup ==
  /\ Turn
  /\ CleanupCallback

(* the wall clock moves on to a later instant *)
Advance ==
  /\ Turn
  /\ \E t \in Instants : t > now /\ now' = t
  /\ UNCHANGED <<storeVars, shopperSockets, repSockets, sent, race>>

-----------------------------------------------------------------------------
Handlers ==
  \/ \E c \in ShopperSocketIds : ShopperAccept(c)
  \/ \E c \in ShopperSocketIds, s \in ShopperIds : JoinQueue(c, s)
  \/ \E c \in ShopperSocketIds, s \in ShopperIds : LeaveQueue(c, s)
  \/ \E c \in ShopperSocketIds, s \in ShopperIds : EndCall(c, s)
  \/ \E c \in ShopperSocketIds, s \in ShopperIds : SdpAnswer(c, s)
  \/ \E c \in ShopperSocketIds, s \in ShopperIds : ShopperIceCandidate(c, s)
  \/ \E c \in ShopperSocketIds, r \in RepIds, a \in BOOLEAN : CollaborationResponse(c, r, a)
  \/ \E c \in ShopperSocketIds : ShopperError(c)
  \/ \E c \in ShopperSocketIds : ShopperClose(c)
  \/ \E c \in RepSocketIds : RepAccept(c)
  \/ \E c \in RepSocketIds, r \in RepIds : Connect(c, r)
  \/ \E c \in RepSocketIds, s \in ShopperIds : ClaimCall(c, s)
  \/ \E c \in RepSocketIds, s \in ShopperIds : ReleaseCall(c, s)
  \/ \E c \in RepSocketIds, s \in ShopperIds : RepIceCandidate(c, s)
  \/ \E c \in RepSocketIds, s \in ShopperIds : RequestCollaboration(c, s)
  \/ \E c \in RepSocketIds : RepError(c)
  \/ \E c \in RepSocketIds : RepClose(c)
  \/ \E s \in ShopperIds : RestRemove(s)
  \/ \E a \in MaxAgeInputs : RestCleanup(a)
  \/ PeriodicCleanup
  \/ Advance

Next == Handlers

Spec == Init /\ [][Next]_vars

-----------------------------------------------------------------------------
(* Two representatives send claim_call for the same shopper at the same    *)
(* time.  Each frame is handled by its own run of the claim_call handler;  *)
(* the order of the two runs is not determined.                            *)

Registered(c) ==
  /\ RepOpen(c)
  /\ repSockets[c].currentSalesRepId # NoId
  /\ getSalesRepSocket(salesRepConnections, repSockets[c].currentSalesRepId) = c

(* both frames are on the wire *)
StartRace(c1, c2, shopperId) ==
  /\ Idle
  /\ c1 < c2
  /\ Registered(c1) /\ Registered(c2)
  /\ repSockets[c1].currentSalesRepId # repSockets[c2].currentSalesRepId
  /\ ~isSalesRepBusy(callQueue, repSockets[c1].currentSalesRepId)
  /\ ~isSalesRepBusy(callQueue, repSockets[c2].currentSalesRepId)
  /\ Has(callQueue, shopperId)
  /\ AssignedRepOf(callQueue, shopperId) = NoId
  /\ race' = [shopperId |-> shopperId, pending |-> {c1, c2}, claimed |-> {}, errors |-> {}]
  /\ UNCHANGED <<storeVars, shopperSockets, repSockets, now, sent, steps>>

Received(frames, to, type) == \E i \in DOMAIN frames : frames[i].to = to /\ frames[i].type = type

(* the last frame of a handler run went to this connection *)
LastTo(frames, to) == frames # <<>> /\ frames[Len(frames)].to = to

(* one of the two frames is handled *)
RaceClaim(c) ==
  /\ ~Idle
  /\ c \in race.pending
  /\ ClaimCallHandler(c, race.shopperId)
  /\ race' = [race EXCEPT
                !.pending = @ \ {c},
                !.claimed = IF Received(sent', ToRep(c), "call_claimed") THEN @ \cup {c} ELSE @,
                !.errors = IF Received(sent', ToRep(c), "error") THEN @ \cup {c} ELSE @]

NextRace ==
  \/ Handlers
  \/ \E c1, c2 \in RepSocketIds, s \in ShopperIds : StartRace(c1, c2, s)
  \/ \E c \in RepSocketIds : RaceClaim(c)

SpecRace == Init /\ [][NextRace]_vars

-----------------------------------------------------------------------------
(* The edges of the two time windows.  Besides the instants of Instants,   *)
(* the clock may stop one millisecond before the end of the grace window   *)
(* and exactly at the end of the collaboration TTL.                        *)

BoundaryInstants ==
  {StartTime + GraceMinutes * MsPerMinute - 1,
   StartTime + CollabExpireMs}

AdvanceToBoundary ==
  /\ Turn
  /\ \E t \in BoundaryInstants : t > now /\ now' = t
  /\ UNCHANGED <<storeVars, shopperSockets, repSockets, sent, race>>

NextTimed ==
  \/ Handlers
  \/ AdvanceToBoundary

SpecTimed == Init /\ [][NextTimed]_vars

-----------------------------------------------------------------------------
(* The timers keep running when the clients have stopped.  The wall clock  *)
(* and the setInterval callback are not bound by the step budget, and the  *)
(* event loop runs the callback whenever it is due: both are weakly fair.  *)
(* The clients have LiveSteps handler runs before they stop.               *)

InitLive ==
  /\ InitExceptSteps
  /\ steps = MaxSteps - LiveSteps

Tick ==
  /\ Idle
  /\ \E t \in Instants : t > now /\ now' = t
  /\ UNCHANGED <<storeVars, shopperSockets, repSockets, sent, steps, race>>

JanitorTick ==
  /\ Idle
  /\ CleanupCallback
  /\ UNCHANGED steps

NextLive ==
  \/ Handlers
  \/ Tick
  \/ JanitorTick

SpecLive == InitLive /\ [][NextLive]_vars /\ WF_vars(Tick) /\ WF_vars(JanitorTick)

-----------------------------------------------------------------------------
(* The sweeps at the edges of their windows, late in a conversation: the   *)
(* clients have SweepSteps handler runs, the clock may also stop at the    *)
(* boundary instants, and the setInterval callback runs at any time.       *)

InitSweep ==
  /\ InitExceptSteps
  /\ steps = MaxSteps - SweepSteps

TickToBoundary ==
  /\ Idle
  /\ \E t \in Instants \cup BoundaryInstants : t > now /\ now' = t
  /\ UNCHANGED <<storeVars, shopperSockets, repSockets, sent, steps, race>>

NextSweep ==
  \/ Handlers
  \/ TickToBoundary
  \/ JanitorTick

SpecSweep == InitSweep /\ [][NextSweep]_vars

-----------------------------------------------------------------------------
(* Frames that do not parse, or lack the field their handler tests.        *)
(* JSON.parse of an unparseable payload throws into the catch block; a     *)
(* missing field is undefined, which fails the handler's if and is passed  *)
(* on as it is by join_queue and connect, which have no such test.         *)

InvalidMessageFormat == "Invalid message format"

ShopperGuardedTypes ==
  {"leave_queue", "sdp_answer", "ice_candidate", "end_call", "collaboration_response"}

RepGuardedTypes ==
  {"claim_call", "release_call", "ice_candidate", "request_collaboration"}

ShopperUnparseable(c) ==
  /\ Turn
  /\ ShopperOpen(c)
  /\ sent' = <<ErrorFrame(ToShopper(c), NoId, InvalidMessageFormat)>>
  /\ UNCHANGED <<storeVars, shopperSockets, repSockets, now, race>>

ShopperMissingField(c, type) ==
  /\ Turn
  /\ ShopperOpen(c)
  /\ type \in ShopperGuardedTypes
  /\ sent' = <<>>
  /\ UNCHANGED <<storeVars, shopperSockets, repSockets, now, race>>

JoinQueueWithoutShopperId(c) == JoinQueue(c, NoId)

RepUnparseable(c) ==
  /\ Turn
  /\ RepOpen(c)
  /\ sent' = <<ErrorFrame(ToRep(c), NoId, InvalidMessageFormat)>>
  /\ UNCHANGED <<storeVars, shopperSockets, repSockets, now, race>>

RepMissingField(c, type) ==
  /\ Turn
  /\ RepOpen(c)
  /\ type \in RepGuardedTypes
  /\ sent' = <<>>
  /\ UNCHANGED <<storeVars, shopperSockets, repSockets, now, race>>

ConnectWithoutSalesRepId(c) == Connect(c, NoId)

(* an unknown type that is handled like join_queue *)
ShopperUnknownType_JoinsQueue(c, shopperId) == JoinQueue(c, shopperId)

(* default: of the switch: a frame that parses but whose type no case      *)
(* names is logged and dropped, whatever ids it carries                    *)
ShopperUnknownType(c, shopperId) ==
  /\ Turn
  /\ ShopperOpen(c)
  /\ sent' = <<>>
  /\ UNCHANGED <<storeVars, shopperSockets, repSockets, now, race>>

RepUnknownType(c, shopperId) ==
  /\ Turn
  /\ RepOpen(c)
  /\ sent' = <<>>
  /\ UNCHANGED <<storeVars, shopperSockets, repSockets, now, race>>

NextBadFrames ==
  \/ Handlers
  \/ \E c \in ShopperSocketIds, s \in ShopperIds : ShopperUnknownType(c, s)
  \/ \E c \in RepSocketIds, s \in ShopperIds : RepUnknownType(c, s)
  \/ \E c \in ShopperSocketIds : ShopperUnparseable(c)
  \/ \E c \in ShopperSocketIds, type \in ShopperGuardedTypes : ShopperMissingField(c, type)
  \/ \E c \in ShopperSocketIds : JoinQueueWithoutShopperId(c)
  \/ \E c \in RepSocketIds : RepUnparseable(c)
  \/ \E c \in RepSocketIds, type \in RepGuardedTypes : RepMissingField(c, type)
  \/ \E c \in RepSocketIds : ConnectWithoutSalesRepId(c)

(* as in SpecLive, the clients have LiveSteps handler runs *)
SpecBadFrames == InitLive /\ [][NextBadFrames]_vars

-----------------------------------------------------------------------------
(* Properties *)

CurrentRep(c) == repSockets[c].currentSalesRepId

(* C1: in every reachable state, for every representative id r at most one *)
(* shopper entry has assignedSalesRepId = r.                               *)
C1_AtMostOneCallPerRep ==
  \A r \in RepIds :
    Cardinality({i \in DOMAIN callQueue : callQueue[i].assignedSalesRepId = r}) <= 1

(* a busy representative has just tried to claim a second, unassigned shopper *)
C1_Witness ==
  \E c \in RepSocketIds, i, j \in DOMAIN callQueue :
    /\ callQueue[i].assignedSalesRepId = CurrentRep(c)
    /\ callQueue[j].assignedSalesRepId = NoId
    /\ sent = <<ErrorFrame(ToRep(c), callQueue[j].shopperId, "not found or already claimed")>>

(* C2: when two different registered representatives, neither assigned to  *)
(* a shopper, both send claim_call for the same unassigned shopper, then   *)
(* whatever the order of handling exactly one receives call_claimed, the   *)
(* other receives an error frame, and the shopper is assigned to the one   *)
(* that received call_claimed.                                             *)
C2_ExactlyOneClaimWins ==
  (~Idle /\ race.pending = {}) =>
    /\ Cardinality(race.claimed) = 1
    /\ Cardinality(race.errors) = 1
    /\ race.claimed \cap race.errors = {}
    /\ \A c \in race.claimed : AssignedRepOf(callQueue, race.shopperId) = CurrentRep(c)

(* both racing frames have been handled *)
C2_Witness == ~Idle /\ race.pending = {} /\ race.claimed # {}

(* C3: a claim_call by representative r on shopper s sends call_claimed to *)
(* r if and only if, right after the handler, the entry of s exists and    *)
(* has assignedSalesRepId = r.                                             *)
C3_ClaimedIffAssigned ==
  [][\A c \in RepSocketIds, s \in ShopperIds :
       (CurrentRep(c) # NoId /\ ClaimCallHandler(c, s)) =>
         (Received(sent', ToRep(c), "call_claimed")
            <=> (Has(callQueue', s) /\ AssignedRepOf(callQueue', s) = CurrentRep(c)))]_vars

(* a claim has just succeeded on a shopper whose socket is no longer open *)
C3_Witness ==
  \E c \in RepSocketIds, i \in DOMAIN callQueue :
    /\ \E k \in DOMAIN sent :
         sent[k] = Simple(ToRep(c), "call_claimed", callQueue[i].shopperId, CurrentRep(c))
    /\ callQueue[i].assignedSalesRepId = CurrentRep(c)
    /\ ~callQueue[i].isConnected

(* the three ways a claim by the representative of connection c fails *)
ClaimFails(c, s) ==
  \/ ~Has(callQueue, s)
  \/ AssignedRepOf(callQueue, s) \notin {NoId, CurrentRep(c)}
  \/ \E i \in DOMAIN callQueue :
       callQueue[i].shopperId # s /\ callQueue[i].assignedSalesRepId = CurrentRep(c)

(* C4: a claim_call that fails (no entry, assigned to a different          *)
(* representative, or the claimer already assigned to another shopper)     *)
(* leaves the shopper entries, the registry and the collaboration sessions *)
(* unchanged and sends the claimer one error frame: no queue_update and no *)
(* call_answered is sent.                                                  *)
C4_FailedClaimChangesNothing ==
  [][\A c \in RepSocketIds, s \in ShopperIds :
       (CurrentRep(c) # NoId /\ ClaimFails(c, s) /\ ClaimCallHandler(c, s)) =>
         /\ UNCHANGED storeVars
         /\ sent' = <<ErrorFrame(ToRep(c), s, "not found or already claimed")>>]_vars

(* a claim on a shopper that another, registered representative holds has  *)
(* just been refused                                                       *)
C4_Witness ==
  \E c \in RepSocketIds, i \in DOMAIN callQueue :
    /\ sent = <<ErrorFrame(ToRep(c), callQueue[i].shopperId, "not found or already claimed")>>
    /\ CurrentRep(c) # NoId
    /\ callQueue[i].assignedSalesRepId \notin {NoId, CurrentRep(c)}
    /\ HasRep(salesRepConnections, CurrentRep(c))

(* C5: in every reachable state every shopper entry has isConnected true   *)
(* exactly when its disconnectedAt is unset.                               *)
C5_ConnectedIffNoDisconnectedAt ==
  \A i \in DOMAIN callQueue :
    callQueue[i].isConnected <=> callQueue[i].disconnectedAt = Undefined

(* a shopper is back on a new connection after its old one closed, while   *)
(* another entry is still marked disconnected                              *)
C5_Witness ==
  \E i, j \in DOMAIN callQueue, c \in ShopperSocketIds :
    /\ callQueue[i].isConnected
    /\ shopperSockets[c].readyState = "CLOSED"
    /\ shopperSockets[c].currentShopperId = callQueue[i].shopperId
    /\ callQueue[i].shopperSocket # c
    /\ ~callQueue[j].isConnected
    /\ callQueue[j].disconnectedAt = now

(* C6: as long as a shopper entry is not removed, its connectedAt keeps    *)
(* the value set at its creation, under every operation; in particular     *)
(* join, disconnect, join leaves it as the first join set it.              *)
C6_ConnectedAtStable ==
  [][\A s \in ShopperIds :
       (Has(callQueue, s) /\ Has(callQueue', s)) =>
         Get(callQueue', s).connectedAt = Get(callQueue, s).connectedAt]_vars

(* a shopper whose connection closed has just rejoined at a later time     *)
C6_Witness ==
  \E i \in DOMAIN callQueue, c, d \in ShopperSocketIds :
    /\ shopperSockets[c].readyState = "CLOSED"
    /\ shopperSockets[c].currentShopperId = callQueue[i].shopperId
    /\ callQueue[i].shopperSocket = d
    /\ Received(sent, ToShopper(d), "queue_joined")
    /\ callQueue[i].connectedAt < now
    /\ callQueue[i].isConnected

(* C7, as stated: if an entry has assignedSalesRepId = r then r is in the  *)
(* registry and the busy lookup for r returns that shopper.                *)
C7_AssignedRepRegistered ==
  \A i \in DOMAIN callQueue :
    callQueue[i].assignedSalesRepId # NoId =>
      /\ HasRep(salesRepConnections, callQueue[i].assignedSalesRepId)
      /\ getSalesRepCurrentCall(callQueue, callQueue[i].assignedSalesRepId)
           = callQueue[i].shopperId

(* C7, amended: if an entry has assignedSalesRepId = r then the busy       *)
(* lookup for r returns that shopper; r need not be in the registry.       *)
C7_AssignedRepLookup ==
  \A i \in DOMAIN callQueue :
    callQueue[i].assignedSalesRepId # NoId =>
      getSalesRepCurrentCall(callQueue, callQueue[i].assignedSalesRepId)
        = callQueue[i].shopperId

(* two shoppers are in the store and the later one is assigned to a        *)
(* representative whose connection has closed                              *)
C7_Witness ==
  \E i \in DOMAIN callQueue, c \in RepSocketIds :
    /\ i > 1
    /\ CurrentRep(c) # NoId
    /\ callQueue[i].assignedSalesRepId = CurrentRep(c)
    /\ repSockets[c].readyState = "CLOSED"
    /\ ~HasRep(salesRepConnections, CurrentRep(c))

(* C8: in every reachable state every collaboration session that is        *)
(* pending or accepted belongs to a pair (r, s) such that the entry of s   *)
(* exists and has assignedSalesRepId = r.                                  *)
C8_LiveSessionImpliesAssigned ==
  \A k \in DOMAIN collaborationSessions :
    collaborationSessions[k].status \in {"pending", "accepted"} =>
      AssignedRepOf(callQueue, collaborationSessions[k].shopperId)
        = collaborationSessions[k].salesRepId

(* C9: when the call between r and s is released while the entry of s      *)
(* stays, and a collaboration session for (r, s) exists, that session is   *)
(* ended right after the release.                                          *)
C9_ReleaseEndsSession ==
  [][\A s \in ShopperIds, r \in RepIds :
       (/\ AssignedRepOf(callQueue, s) = r
        /\ Has(callQueue', s)
        /\ AssignedRepOf(callQueue', s) = NoId
        /\ HasSession(collaborationSessions, s, r)) =>
         SessionStatus(collaborationSessions', s, r) = "ended"]_vars

SessionKeys == {getCollaborationKey(s, r) : s \in ShopperIds, r \in RepIds}

SessionAt(cs, k) == IF k \in DOMAIN cs THEN cs[k].status ELSE "none"

(* C10: for every session key the only changes are pending to accepted,    *)
(* rejected or ended, accepted to ended, deletion of a pending session     *)
(* that is older than the TTL, and replacement of a session that is not    *)
(* pending by a fresh pending one; a session is created pending; and a     *)
(* collaboration_response never changes a session that is not pending.     *)
C10_SessionTransitions ==
  [][/\ \A k \in SessionKeys :
          LET old == SessionAt(collaborationSessions, k)
              new == SessionAt(collaborationSessions', k)
          IN \/ /\ k \in DOMAIN collaborationSessions
                /\ k \in DOMAIN collaborationSessions'
                /\ collaborationSessions'[k] = collaborationSessions[k]
             \/ old = "none" /\ new \in {"none", "pending"}
             \/ old = "pending" /\ new \in {"accepted", "rejected", "ended"}
             \/ old = "accepted" /\ new = "ended"
             \/ /\ old = "pending" /\ new = "none"
                /\ now - collaborationSessions[k].requestedAt > CollabExpireMs
             \/ /\ old \in {"accepted", "rejected", "ended"} /\ new = "pending"
                /\ collaborationSessions'[k].requestedAt = now
     /\ \A c \in ShopperSocketIds, r \in RepIds, a \in BOOLEAN :
          (/\ SessionStatus(collaborationSessions, shopperSockets[c].currentShopperId, r)
                \in {"accepted", "rejected", "ended"}
           /\ CollaborationResponse(c, r, a))
            => collaborationSessions' = collaborationSessions]_vars

(* a second collaboration_response on an accepted session has just been    *)
(* refused                                                                 *)
C10_Witness ==
  \E c \in ShopperSocketIds, r \in RepIds :
    /\ shopperSockets[c].currentShopperId # NoId
    /\ SessionStatus(collaborationSessions, shopperSockets[c].currentShopperId, r) = "accepted"
    /\ sent = <<ErrorFrame(ToShopper(c), NoId,
                  "Collaboration request not found or already responded to")>>

(* C11: a request_collaboration by representative r for shopper s fails,   *)
(* leaving the session table unchanged, whenever s is not assigned to r or *)
(* a pending session for (r, s) exists; a collaboration_response for       *)
(* (r, s) fails, leaving the session table unchanged, whenever no pending  *)
(* session for (r, s) exists; in every other case the session of (r, s)    *)
(* becomes pending, respectively accepted or rejected, and no other        *)
(* session changes.                                                        *)
C11_CollaborationGuards ==
  [][/\ \A c \in RepSocketIds, s \in ShopperIds :
          (CurrentRep(c) # NoId /\ RepOpen(c) /\ LastTo(sent', ToRep(c))
             /\ RequestCollaboration(c, s)) =>
            LET r == CurrentRep(c)
                k == getCollaborationKey(s, r)
            IN IF \/ AssignedRepOf(callQueue, s) # r
                  \/ SessionAt(collaborationSessions, k) = "pending"
                 THEN /\ collaborationSessions' = collaborationSessions
                      /\ Received(sent', ToRep(c), "error")
                 ELSE /\ DOMAIN collaborationSessions' = DOMAIN collaborationSessions \cup {k}
                      /\ collaborationSessions'[k].status = "pending"
                      /\ collaborationSessions'[k].requestedAt = now
                      /\ \A j \in DOMAIN collaborationSessions \ {k} :
                            collaborationSessions'[j] = collaborationSessions[j]
     /\ \A c \in ShopperSocketIds, r \in RepIds, a \in BOOLEAN :
          (/\ shopperSockets[c].currentShopperId # NoId
           /\ ShopperOpen(c)
           /\ LastTo(sent', ToShopper(c))
           /\ CollaborationResponse(c, r, a)) =>
            LET k == getCollaborationKey(shopperSockets[c].currentShopperId, r)
            IN IF SessionAt(collaborationSessions, k) # "pending"
                 THEN /\ collaborationSessions' = collaborationSessions
                      /\ Received(sent', ToShopper(c), "error")
                 ELSE /\ DOMAIN collaborationSessions' = DOMAIN collaborationSessions
                      /\ collaborationSessions'[k].status = IF a THEN "accepted" ELSE "rejected"
                      /\ \A j \in DOMAIN collaborationSessions \ {k} :
                            collaborationSessions'[j] = collaborationSessions[j]]_vars

(* a second request_collaboration for a pair whose session is pending has  *)
(* just been refused                                                       *)
C11_Witness ==
  \E c \in RepSocketIds, i \in DOMAIN callQueue :
    /\ CurrentRep(c) # NoId
    /\ callQueue[i].assignedSalesRepId = CurrentRep(c)
    /\ SessionStatus(collaborationSessions, callQueue[i].shopperId, CurrentRep(c)) = "pending"
    /\ sent = <<ErrorFrame(ToRep(c), NoId,
                  "Cannot request collaboration - call not found or request already pending")>>

(* a frame of the run went to some shopper connection *)
ToAnyShopper(frames) == \E k \in DOMAIN frames : frames[k].to[1] = "shopper"

(* C12: an ice_candidate frame from representative r naming shopper s is   *)
(* delivered to the connection of s only if, when it is processed, the     *)
(* entry of s exists and has assignedSalesRepId = r; in every other case   *)
(* nothing is delivered to any shopper and r receives an error frame.      *)
C12_RepIceAuthorized ==
  [][\A c \in RepSocketIds, s \in ShopperIds :
       (CurrentRep(c) # NoId /\ RepOpen(c) /\ RepIceCandidate(c, s)) =>
         LET owns == Has(callQueue, s) /\ AssignedRepOf(callQueue, s) = CurrentRep(c)
         IN /\ ToAnyShopper(sent') =>
                 /\ owns
                 /\ sent' = <<Simple(ToShopper(Get(callQueue, s).shopperSocket),
                                     "ice_candidate", s, CurrentRep(c))>>
            /\ ~owns =>
                 /\ ~ToAnyShopper(sent')
                 /\ Received(sent', ToRep(c), "error")]_vars

(* a representative has just been refused an ice_candidate for a connected *)
(* shopper that another representative holds                               *)
C12_Witness ==
  \E c \in RepSocketIds, i \in DOMAIN callQueue :
    /\ CurrentRep(c) # NoId
    /\ callQueue[i].assignedSalesRepId \notin {NoId, CurrentRep(c)}
    /\ callQueue[i].isConnected
    /\ ShopperOpen(callQueue[i].shopperSocket)
    /\ sent = <<ErrorFrame(ToRep(c), callQueue[i].shopperId, "Not assigned to shopper")>>

(* exactly one frame, an error frame to this shopper connection *)
OnlyErrorTo(frames, c) ==
  Len(frames) = 1 /\ frames[1].to = ToShopper(c) /\ frames[1].type = "error"

(* C13, as stated: an sdp_answer or ice_candidate frame from a shopper is  *)
(* forwarded to exactly one connection, the registered connection of the   *)
(* representative the shopper is assigned to, and to no other; if the      *)
(* shopper has no assigned representative nothing is forwarded and the     *)
(* shopper receives an error frame.                                        *)
C13_ForwardedToAssignedRep ==
  [][\A c \in ShopperSocketIds, s \in ShopperIds :
       LET r == AssignedRepOf(callQueue, s)
           Routed(type) ==
             IF r # NoId
               THEN /\ HasRep(salesRepConnections, r)
                    /\ sent' = <<Simple(ToRep(getSalesRepSocket(salesRepConnections, r)),
                                        type, s, r)>>
               ELSE OnlyErrorTo(sent', c)
       IN /\ (ShopperOpen(c) /\ SdpAnswer(c, s)) => Routed("sdp_answer")
          /\ (ShopperOpen(c) /\ ShopperIceCandidate(c, s)) => Routed("ice_candidate")]_vars

(* C13, amended: the frame is forwarded to the registered connection of    *)
(* the assigned representative, and to no other connection, when that      *)
(* representative has a registered open connection; if the shopper has no  *)
(* assigned representative, or the assigned representative has no          *)
(* registered open connection, nothing is forwarded and the shopper        *)
(* receives an error frame.                                                *)
C13_ForwardedIfRepConnected ==
  [][\A c \in ShopperSocketIds, s \in ShopperIds :
       LET r == AssignedRepOf(callQueue, s)
           Routed(type) ==
             IF /\ r # NoId
                /\ HasRep(salesRepConnections, r)
                /\ RepOpen(getSalesRepSocket(salesRepConnections, r))
               THEN sent' = <<Simple(ToRep(getSalesRepSocket(salesRepConnections, r)),
                                     type, s, r)>>
               ELSE OnlyErrorTo(sent', c)
       IN /\ (ShopperOpen(c) /\ SdpAnswer(c, s)) => Routed("sdp_answer")
          /\ (ShopperOpen(c) /\ ShopperIceCandidate(c, s)) => Routed("ice_candidate")]_vars

(* a shopper whose representative has closed its connection has just been  *)
(* told that the representative is not available                           *)
C13_Witness ==
  \E c \in ShopperSocketIds, i \in DOMAIN callQueue :
    /\ callQueue[i].assignedSalesRepId # NoId
    /\ ~HasRep(salesRepConnections, callQueue[i].assignedSalesRepId)
    /\ callQueue[i].shopperSocket = c
    /\ sent = <<ErrorFrame(ToShopper(c), NoId, "Sales representative is not available")>>

(* the queue_update frames among the frames of the last handler run *)
QueueUpdates(frames) == {k \in DOMAIN frames : frames[k].type = "queue_update"}

(* C14: every queue_update frame sent to a representative contains, when   *)
(* it is sent, exactly one projection per shopper entry in the store (no   *)
(* missing id, no id of a removed shopper, no duplicate), and each         *)
(* projection's isConnected and assignedSalesRepId equal the entry's.      *)
C14_SnapshotIsCurrent ==
  \A k \in QueueUpdates(sent) :
    LET snapshot == sent[k].queue
    IN /\ sent[k].to[1] = "rep"
       /\ Len(snapshot) = Len(callQueue)
       /\ \A s \in ShopperIds :
            Cardinality({i \in DOMAIN snapshot : snapshot[i].shopperId = s})
              = IF Has(callQueue, s) THEN 1 ELSE 0
       /\ \A i \in DOMAIN snapshot :
            /\ Has(callQueue, snapshot[i].shopperId)
            /\ snapshot[i].isConnected = Get(callQueue, snapshot[i].shopperId).isConnected
            /\ snapshot[i].assignedSalesRepId
                 = Get(callQueue, snapshot[i].shopperId).assignedSalesRepId

(* a snapshot with an assigned shopper and a disconnected shopper has just  *)
(* been broadcast                                                          *)
C14_Witness ==
  \E k \in QueueUpdates(sent) :
    /\ Len(sent[k].queue) = 2
    /\ \E i \in DOMAIN sent[k].queue : ~sent[k].queue[i].isConnected
    /\ \E i \in DOMAIN sent[k].queue : sent[k].queue[i].assignedSalesRepId # NoId

(* what a representative can tell apart in the store: which shoppers have  *)
(* an entry and each entry's isConnected, disconnectedAt and assignment    *)
Observable(q) ==
  {<<q[i].shopperId, q[i].isConnected, q[i].disconnectedAt, q[i].assignedSalesRepId>> :
     i \in DOMAIN q}

(* the last queue_update among the frames that went to connection c *)
LastUpdateTo(frames, c) ==
  LET ks == {k \in QueueUpdates(frames) : frames[k].to = ToRep(c)}
  IN frames[CHOOSE k \in ks : \A j \in ks : j <= k].queue

(* C15: after every operation that changes the set of shopper entries or   *)
(* an entry's isConnected, disconnectedAt or assignedSalesRepId, a         *)
(* queue_update is sent to every registered representative whose           *)
(* connection is open, and the last queue_update each of them receives is  *)
(* the snapshot of the state after the change.                             *)
C15_ChangeIsBroadcast ==
  [][Observable(callQueue') # Observable(callQueue) =>
       \A i \in DOMAIN salesRepConnections' :
         LET c == salesRepConnections'[i].socket
         IN repSockets'[c].readyState = "OPEN" =>
              /\ Received(sent', ToRep(c), "queue_update")
              /\ LastUpdateTo(sent', c) = getCallQueueSummary(callQueue', now')]_vars

(* a shopper whose connection closed is gone from the store and the        *)
(* removal has just been broadcast to both registered representatives      *)
C15_Witness ==
  /\ Len(salesRepConnections) = 2
  /\ \A i \in DOMAIN salesRepConnections :
       /\ RepOpen(salesRepConnections[i].socket)
       /\ Received(sent, ToRep(salesRepConnections[i].socket), "queue_update")
  /\ \E c \in ShopperSocketIds :
       /\ shopperSockets[c].readyState = "CLOSED"
       /\ shopperSockets[c].currentShopperId # NoId
       /\ ~Has(callQueue, shopperSockets[c].currentShopperId)

(* the entries in the waiting line: connected and not assigned *)
WaitingLine(q) == {i \in DOMAIN q : q[i].isConnected /\ q[i].assignedSalesRepId = NoId}

(* C16: in every reachable state the position of a shopper is its 1-based  *)
(* rank by ascending connectedAt among the connected, unassigned entries,  *)
(* and 0 for a shopper that is disconnected, assigned or absent; the       *)
(* positions of the n waiting shoppers are exactly the values 1..n.        *)
C16_PositionIsRank ==
  LET line == WaitingLine(callQueue)
      pos(i) == getShopperQueuePosition(callQueue, callQueue[i].shopperId)
  IN /\ \A s \in ShopperIds :
          (~Has(callQueue, s) \/ Idx(callQueue, s) \notin line)
            => getShopperQueuePosition(callQueue, s) = 0
     /\ {pos(i) : i \in line} = 1..Cardinality(line)
     /\ \A i, j \in line :
          callQueue[i].connectedAt < callQueue[j].connectedAt => pos(i) < pos(j)

(* the store holds an assigned shopper, inserted first, and a waiting      *)
(* shopper that joined later                                               *)
C16_Witness ==
  /\ Len(callQueue) >= 2
  /\ callQueue[1].assignedSalesRepId # NoId
  /\ callQueue[1].isConnected
  /\ 2 \in WaitingLine(callQueue)
  /\ callQueue[1].connectedAt < callQueue[2].connectedAt

(* the position carried by the first frame of this type sent to a shopper  *)
PositionIn(frames, type) ==
  frames[CHOOSE k \in DOMAIN frames :
           /\ frames[k].type = type /\ frames[k].to[1] = "shopper"
           /\ \A j \in DOMAIN frames :
                (frames[j].type = type /\ frames[j].to[1] = "shopper") => k <= j].position

(* the position is the rank of s in the waiting line of q: 0 outside the   *)
(* line, and inside it behind the entries that joined no later and were    *)
(* inserted earlier, ahead of every entry that joined later                *)
IsRankOf(p, q, s) ==
  IF Has(q, s) /\ Idx(q, s) \in WaitingLine(q)
    THEN /\ p = getShopperQueuePosition(q, s)
         /\ p >= 1
         /\ \A j \in WaitingLine(q) :
              q[j].connectedAt > Get(q, s).connectedAt
                => getShopperQueuePosition(q, q[j].shopperId) > p
    ELSE p = 0

(* C17: the position carried by a queue_joined frame and by a              *)
(* call_released frame is the shopper's rank in the waiting line of the    *)
(* state after the join or release; a first-time joiner is told a position *)
(* behind every shopper already waiting, and a released shopper re-enters  *)
(* the line ahead of the waiting shoppers that joined later.               *)
C17_PositionAfterChange ==
  [][/\ \A c \in ShopperSocketIds, s \in ShopperIds :
          (ShopperOpen(c) /\ JoinQueue(c, s)) =>
            /\ Received(sent', ToShopper(c), "queue_joined")
            /\ IsRankOf(PositionIn(sent', "queue_joined"), callQueue', s)
            /\ ~Has(callQueue, s) =>
                 PositionIn(sent', "queue_joined") = Cardinality(WaitingLine(callQueue)) + 1
     /\ \A c \in RepSocketIds, s \in ShopperIds :
          (/\ CurrentRep(c) # NoId /\ RepOpen(c)
           /\ Has(callQueue, s) /\ ShopperOpen(Get(callQueue, s).shopperSocket)
           /\ ReleaseCall(c, s)) =>
            /\ Received(sent', ToShopper(Get(callQueue, s).shopperSocket), "call_released")
            /\ IsRankOf(PositionIn(sent', "call_released"), callQueue', s)
     /\ \A c \in ShopperSocketIds, s \in ShopperIds :
          (/\ ShopperOpen(c)
           /\ AssignedRepOf(callQueue, s) # NoId
           /\ ShopperOpen(Get(callQueue, s).shopperSocket)
           /\ EndCall(c, s)) =>
            /\ Received(sent', ToShopper(Get(callQueue, s).shopperSocket), "call_released")
            /\ IsRankOf(PositionIn(sent', "call_released"), callQueue', s)]_vars

(* a released shopper has just been told position 1 while a shopper that   *)
(* joined later is waiting                                                 *)
C17_Witness ==
  /\ Len(callQueue) = 2
  /\ WaitingLine(callQueue) = {1, 2}
  /\ callQueue[1].connectedAt < callQueue[2].connectedAt
  /\ \E k \in DOMAIN sent :
       /\ sent[k].type = "call_released"
       /\ sent[k].to = ToShopper(callQueue[1].shopperSocket)
       /\ sent[k].salesRepId # NoId
       /\ sent[k].position = 1

(* the projections of a snapshot are in non-decreasing order of connectedAt *)
InArrivalOrder(snapshot) ==
  \A i, j \in DOMAIN snapshot : i < j => snapshot[i].connectedAt <= snapshot[j].connectedAt

(* C18: in every queue snapshot the shopper projections appear in arrival  *)
(* order, that is in non-decreasing order of connectedAt, after any        *)
(* sequence of joins, reconnects, leaves and re-joins, claims, releases    *)
(* and evictions.                                                          *)
C18_SnapshotInArrivalOrder ==
  /\ InArrivalOrder(getCallQueueSummary(callQueue, now))
  /\ \A k \in QueueUpdates(sent) : InArrivalOrder(sent[k].queue)

(* a snapshot of two shoppers has just been sent; the one that arrived     *)
(* first has since joined again on another connection                      *)
C18_Witness ==
  \E k \in QueueUpdates(sent), c \in ShopperSocketIds :
    /\ Len(sent[k].queue) = 2
    /\ sent[k].queue[1].connectedAt < sent[k].queue[2].connectedAt
    /\ Len(callQueue) = 2
    /\ shopperSockets[c].currentShopperId = callQueue[1].shopperId
    /\ callQueue[1].shopperSocket # c

(* the fields of the queue snapshot that do not depend on the time of day  *)
SnapshotFields(q) ==
  [i \in DOMAIN q |->
     [shopperId |-> q[i].shopperId,
      isConnected |-> q[i].isConnected,
      disconnectedAt |-> q[i].disconnectedAt,
      assignedSalesRepId |-> q[i].assignedSalesRepId,
      hasMicrophone |-> q[i].hasMicrophone,
      connectedAt |-> q[i].connectedAt]]

(* C19: for an existing unassigned shopper s and a representative r that   *)
(* is not busy, a successful claim of s by r followed by the release of s  *)
(* leaves the queue snapshot (set of shoppers, order, isConnected,         *)
(* disconnectedAt, assignedSalesRepId, hasMicrophone, connectedAt) as it   *)
(* was before the claim.                                                   *)
C19_ClaimThenReleaseRestores ==
  [][\A c \in RepSocketIds, s \in ShopperIds :
       (/\ CurrentRep(c) # NoId /\ RepOpen(c)
        /\ Has(callQueue, s)
        /\ AssignedRepOf(callQueue, s) = NoId
        /\ ~isSalesRepBusy(callQueue, CurrentRep(c))
        /\ ClaimCall(c, s)) =>
         /\ AssignedRepOf(callQueue', s) = CurrentRep(c)
         /\ SnapshotFields(releaseCallFromSalesRep(callQueue', s)) = SnapshotFields(callQueue)
         /\ releaseCallFromSalesRep(callQueue', s) = callQueue]_vars

(* the second of two shoppers, joined earlier than now, was claimed and    *)
(* has just been released by the representative                            *)
C19_Witness ==
  \E c \in RepSocketIds :
    /\ Len(callQueue) = 2
    /\ \A i \in DOMAIN callQueue : callQueue[i].assignedSalesRepId = NoId
    /\ callQueue[2].connectedAt < now
    /\ Len(sent) >= 2
    /\ sent[1].type = "call_released"
    /\ sent[1].to = ToShopper(callQueue[2].shopperSocket)
    /\ sent[1].salesRepId = CurrentRep(c)
    /\ sent[2] = Simple(ToRep(c), "call_released", callQueue[2].shopperId, CurrentRep(c))

(* C20: leaving the queue is idempotent: a leave_queue for a shopper that  *)
(* has no entry (for instance a second leave_queue) reports not-found      *)
(* instead of queue_left, changes no state and triggers no queue_update.   *)
C20_LeaveAbsentIsSilent ==
  [][\A c \in ShopperSocketIds, s \in ShopperIds :
       (ShopperOpen(c) /\ ~Has(callQueue, s) /\ LeaveQueue(c, s)) =>
         /\ UNCHANGED storeVars
         /\ QueueUpdates(sent') = {}
         /\ ~Received(sent', ToShopper(c), "queue_left")]_vars

(* the number of registered connections whose socket is open *)
OpenRegistered(m) == Cardinality({i \in DOMAIN m : RepOpen(m[i].socket)})

(* C21: a janitor tick removes exactly the entries with isConnected false  *)
(* and now - disconnectedAt strictly greater than the 60 s grace window    *)
(* and keeps every other entry as it is (also at grace minus 1 ms and at   *)
(* exactly the grace window); it triggers one queue_update broadcast if an *)
(* entry was removed and none otherwise.  One broadcast is one frame per   *)
(* registry entry whose socket is open.                                    *)
C21_JanitorEvictsPastGrace ==
  [][PeriodicCleanup =>
       LET Expired(e) == ~e.isConnected /\ now - e.disconnectedAt > 60 * 1000
       IN /\ callQueue' = SelectSeq(callQueue, LAMBDA e : ~Expired(e))
          /\ \A i \in DOMAIN callQueue :
               Has(callQueue', callQueue[i].shopperId) <=> ~Expired(callQueue[i])
          /\ IF \E i \in DOMAIN callQueue : Expired(callQueue[i])
               THEN /\ Len(sent') = OpenRegistered(salesRepConnections)
                    /\ \A k \in DOMAIN sent' : sent'[k].type = "queue_update"
                    /\ \A i \in DOMAIN salesRepConnections :
                         RepOpen(salesRepConnections[i].socket) =>
                           Cardinality({k \in DOMAIN sent' :
                                          sent'[k].to = ToRep(salesRepConnections[i].socket)})
                             = Cardinality({j \in DOMAIN salesRepConnections :
                                              salesRepConnections[j].socket
                                                = salesRepConnections[i].socket})
               ELSE sent' = <<>>]_vars

(* one millisecond past the grace window: the shopper whose connection     *)
(* closed at the start is gone and the registered representative has just  *)
(* been sent the empty queue                                               *)
C21_Witness ==
  \E c \in ShopperSocketIds, d \in RepSocketIds :
    /\ now = StartTime + GraceMinutes * MsPerMinute + 1
    /\ shopperSockets[c].readyState = "CLOSED"
    /\ shopperSockets[c].currentShopperId # NoId
    /\ callQueue = <<>>
    /\ sent = <<QueueUpdate(ToRep(d), <<>>, now)>>

(* C22: a shopper with a live connection never expires: while the          *)
(* connection that processed the most recent join_queue of s (the socket   *)
(* stored in its entry) is open, the entry of s has isConnected true and   *)
(* the janitor does not remove it, whatever happens on other connections.  *)
C22_LiveShopperNeverExpires ==
  [][\A s \in ShopperIds :
       /\ (/\ Has(callQueue', s)
           /\ shopperSockets'[Get(callQueue', s).shopperSocket].readyState = "OPEN")
            => Get(callQueue', s).isConnected
       /\ (/\ Has(callQueue, s)
           /\ ShopperOpen(Get(callQueue, s).shopperSocket)
           /\ PeriodicCleanup)
            => Has(callQueue', s)]_vars

(* the entry of s is marked disconnected early enough for the sampled      *)
(* clock to pass the end of its grace window                               *)
AwaitsEviction(s) ==
  /\ Has(callQueue, s)
  /\ ~Get(callQueue, s).isConnected
  /\ \E t \in Instants : t - Get(callQueue, s).disconnectedAt > GraceMinutes * MsPerMinute

(* C23: when a shopper's connection closes, its entry is kept, marked      *)
(* disconnected; if the shopper does not join again, then with time        *)
(* advancing and janitor ticks firing fairly the entry is eventually       *)
(* removed, and the removal sends the registered representatives a         *)
(* queue_update without that shopper.  A close after an error stamps       *)
(* disconnectedAt again and restarts the grace window; the last disjunct   *)
(* covers a window restarted too late for the sampled clock to outlast.    *)
C23_ClosedShopperEventuallyEvicted ==
  /\ [][\A s \in ShopperIds :
          /\ \A c \in ShopperSocketIds :
               (/\ shopperSockets[c].currentShopperId = s
                /\ Has(callQueue, s)
                /\ ShopperClose(c)) =>
                 /\ Has(callQueue', s)
                 /\ ~Get(callQueue', s).isConnected
                 /\ Get(callQueue', s).disconnectedAt = now
          /\ (Has(callQueue, s) /\ ~Has(callQueue', s)) =>
               /\ \A i \in DOMAIN salesRepConnections :
                    RepOpen(salesRepConnections[i].socket) =>
                      Received(sent', ToRep(salesRepConnections[i].socket), "queue_update")
               /\ \A k \in QueueUpdates(sent') :
                    \A j \in DOMAIN sent'[k].queue : sent'[k].queue[j].shopperId # s]_vars
  /\ \A s \in ShopperIds :
       AwaitsEviction(s) ~> \/ ~Has(callQueue, s)
                            \/ Get(callQueue, s).isConnected
                            \/ ~AwaitsEviction(s)

(* past the grace window the shopper of a closed connection is gone and    *)
(* the registered representative has just been sent the queue without it   *)
C23_Witness ==
  \E c \in ShopperSocketIds, d \in RepSocketIds :
    /\ now > StartTime + GraceMinutes * MsPerMinute + 1
    /\ shopperSockets[c].readyState = "CLOSED"
    /\ shopperSockets[c].currentShopperId # NoId
    /\ ~Has(callQueue, shopperSockets[c].currentShopperId)
    /\ Registered(d)
    /\ sent = <<QueueUpdate(ToRep(d), callQueue, now)>>

(* C24: a janitor tick deletes exactly the collaboration sessions that are *)
(* pending and older than the 5 minute TTL (now - requestedAt strictly     *)
(* greater); every other session is left as it was, and unless a shopper   *)
(* entry is evicted by the same tick no frame is sent.  A frame the tick   *)
(* does send is a queue_update of the eviction.                            *)
C24_JanitorSweepsExpiredRequests ==
  [][CleanupCallback =>
       LET Expired(k) ==
             /\ collaborationSessions[k].status = "pending"
             /\ now - collaborationSessions[k].requestedAt > 5 * 60 * 1000
       IN /\ DOMAIN collaborationSessions' =
               {k \in DOMAIN collaborationSessions : ~Expired(k)}
          /\ \A k \in DOMAIN collaborationSessions' :
               collaborationSessions'[k] = collaborationSessions[k]
          /\ (callQueue' = callQueue) => (sent' = <<>>)
          /\ \A k \in DOMAIN sent' : sent'[k].type = "queue_update"]_vars

(* the janitor can tick while a session is pending and past the TTL        *)
C24_Witness ==
  /\ Idle
  /\ \E k \in DOMAIN collaborationSessions :
       /\ collaborationSessions[k].status = "pending"
       /\ now - collaborationSessions[k].requestedAt > CollabExpireMs

(* the janitor can tick while an answered session is past the TTL          *)
C24_WitnessAnswered ==
  /\ Idle
  /\ \E k \in DOMAIN collaborationSessions :
       /\ collaborationSessions[k].status \in {"accepted", "rejected"}
       /\ now - collaborationSessions[k].requestedAt > CollabExpireMs

(* a pending session exactly as old as the TTL                             *)
C24_WitnessAtTtl ==
  /\ Idle
  /\ \E k \in DOMAIN collaborationSessions :
       /\ collaborationSessions[k].status = "pending"
       /\ now - collaborationSessions[k].requestedAt = CollabExpireMs

(* C25: the close (or error) of a representative's connection removes the  *)
(* representative from the registry and changes nothing else: the call     *)
(* queue, with every assignment, and the sessions stay as they were and no *)
(* frame is sent.  Whatever connection is bound to a representative id     *)
(* afterwards, the representative with an assigned shopper is busy: its    *)
(* claim of any other shopper fails, and its release of the shopper        *)
(* succeeds and clears the assignment.                                     *)
C25_RepCloseKeepsAssignment ==
  /\ [][\A c \in RepSocketIds :
          (RepClose(c) \/ RepError(c)) =>
            /\ callQueue' = callQueue
            /\ collaborationSessions' = collaborationSessions
            /\ shopperSockets' = shopperSockets
            /\ sent' = <<>>
            /\ CurrentRep(c) # NoId =>
                 /\ \A i \in DOMAIN salesRepConnections' :
                      salesRepConnections'[i].salesRepId # CurrentRep(c)
                 /\ salesRepConnections' =
                      SelectSeq(salesRepConnections,
                                LAMBDA e : e.salesRepId # CurrentRep(c))]_vars
  /\ [](\A c \in RepSocketIds, s \in ShopperIds :
          (/\ RepOpen(c)
           /\ CurrentRep(c) # NoId
           /\ Has(callQueue, s)
           /\ Get(callQueue, s).assignedSalesRepId = CurrentRep(c)) =>
            /\ isSalesRepBusy(callQueue, CurrentRep(c))
            /\ \A o \in ShopperIds \ {s} :
                 ~assignSucceeds(callQueue, o, CurrentRep(c))
            /\ releaseSucceeds(callQueue, s)
            /\ Get(releaseCallFromSalesRep(callQueue, s), s).assignedSalesRepId = NoId)

(* a connection of a representative has closed, the representative is     *)
(* registered under the same id on another connection, and a shopper is    *)
(* assigned to it                                                          *)
C25_Witness ==
  \E c1, c2 \in RepSocketIds, s \in ShopperIds :
    /\ c1 # c2
    /\ repSockets[c1].readyState = "CLOSED"
    /\ CurrentRep(c1) # NoId
    /\ CurrentRep(c2) = CurrentRep(c1)
    /\ Registered(c2)
    /\ Has(callQueue, s)
    /\ Get(callQueue, s).assignedSalesRepId = CurrentRep(c2)

(* shopper s is assigned to a representative that is not in the registry   *)
Orphaned(s) ==
  /\ Has(callQueue, s)
  /\ Get(callQueue, s).assignedSalesRepId # NoId
  /\ getSalesRepSocket(salesRepConnections, Get(callQueue, s).assignedSalesRepId) = 0

(* C26: a shopper left assigned to a representative whose connection has   *)
(* closed eventually has its assignment cleared (or its entry removed)     *)
(* under fair clock and janitor ticks, and an end_call of the shopper      *)
(* clears the assignment in the same handler.                              *)
C26_OrphanedAssignmentEventuallyCleared ==
  /\ \A s \in ShopperIds :
       Orphaned(s) ~> \/ ~Has(callQueue, s)
                      \/ Get(callQueue, s).assignedSalesRepId = NoId
  /\ [][\A c \in ShopperSocketIds, s \in ShopperIds :
          (Orphaned(s) /\ EndCall(c, s)) =>
            Get(callQueue', s).assignedSalesRepId = NoId]_vars

(* C27: every end_call of a shopper that has an entry is a release:        *)
(* afterwards the entry has no assigned representative, the shopper has    *)
(* been sent call_ended (whether or not a representative was assigned),    *)
(* the former representative, if registered on an open connection, has     *)
(* been sent call_ended_by_shopper, and every registered open              *)
(* representative has been sent a queue_update.                            *)
C27_EndCallIsRelease ==
  [][\A c \in ShopperSocketIds, s \in ShopperIds :
       (Has(callQueue, s) /\ EndCall(c, s)) =>
         LET previous == AssignedRepOf(callQueue, s)
             repSocket == getSalesRepSocket(salesRepConnections, previous)
         IN /\ Get(callQueue', s).assignedSalesRepId = NoId
            /\ Received(sent', ToShopper(c), "call_ended")
            /\ (previous # NoId /\ repSocket # 0 /\ RepOpen(repSocket)) =>
                 Received(sent', ToRep(repSocket), "call_ended_by_shopper")
            /\ \A i \in DOMAIN salesRepConnections :
                 RepOpen(salesRepConnections[i].socket) =>
                   Received(sent', ToRep(salesRepConnections[i].socket), "queue_update")]_vars

(* C28: a signaling frame that cannot be delivered because the peer's      *)
(* connection is absent or not open (sdp_answer or ice_candidate of a      *)
(* shopper to its assigned representative, ice_candidate of the assigned   *)
(* representative to its shopper) is answered with an error frame to the   *)
(* originator, and the store is not modified.                              *)
C28_UndeliverableSignalIsReported ==
  [][/\ \A c \in ShopperSocketIds, s \in ShopperIds :
          LET assigned == AssignedRepOf(callQueue, s)
              repSocket == getSalesRepSocket(salesRepConnections, assigned)
          IN (/\ assigned # NoId
              /\ ~(repSocket # 0 /\ RepOpen(repSocket))
              /\ (SdpAnswer(c, s) \/ ShopperIceCandidate(c, s))) =>
               /\ Received(sent', ToShopper(c), "error")
               /\ UNCHANGED storeVars
     /\ \A c \in RepSocketIds, s \in ShopperIds :
          (/\ CurrentRep(c) # NoId
           /\ AssignedRepOf(callQueue, s) = CurrentRep(c)
           /\ ~ShopperOpen(getShopperSocket(callQueue, s))
           /\ RepIceCandidate(c, s)) =>
            /\ Received(sent', ToRep(c), "error")
            /\ UNCHANGED storeVars]_vars

(* C29: every inbound frame that does not parse or lacks a field required  *)
(* by its type is answered with exactly one error frame carrying the       *)
(* message 'Invalid message format', leaves the store unchanged and leaves *)
(* the connection open.                                                    *)
C29_BadFrameIsRejected ==
  [][/\ \A c \in ShopperSocketIds :
          (\/ ShopperUnparseable(c)
           \/ JoinQueueWithoutShopperId(c)
           \/ \E type \in ShopperGuardedTypes : ShopperMissingField(c, type)) =>
            /\ sent' = <<ErrorFrame(ToShopper(c), NoId, "Invalid message format")>>
            /\ UNCHANGED storeVars
            /\ shopperSockets'[c].readyState = "OPEN"
     /\ \A c \in RepSocketIds :
          (\/ RepUnparseable(c)
           \/ ConnectWithoutSalesRepId(c)
           \/ \E type \in RepGuardedTypes : RepMissingField(c, type)) =>
            /\ sent' = <<ErrorFrame(ToRep(c), NoId, "Invalid message format")>>
            /\ UNCHANGED storeVars
            /\ repSockets'[c].readyState = "OPEN"]_vars

(* C30: the shopper id of a connection's join_queue is its sticky          *)
(* identity.  A leave_queue, end_call, sdp_answer or ice_candidate frame   *)
(* on a connection bound to one shopper id that names the entry of another *)
(* shopper neither changes the queue nor sends a representative anything   *)
(* on that shopper's behalf, and the close of a connection marks every     *)
(* entry that was joined through it as disconnected.                       *)
C30_ShopperIdIsSticky ==
  [][\A c \in ShopperSocketIds :
       /\ \A s \in ShopperIds :
            (/\ shopperSockets[c].currentShopperId # NoId
             /\ shopperSockets[c].currentShopperId # s
             /\ Has(callQueue, s)
             /\ \/ LeaveQueue(c, s)
                \/ EndCall(c, s)
                \/ SdpAnswer(c, s)
                \/ ShopperIceCandidate(c, s)) =>
              /\ callQueue' = callQueue
              /\ \A k \in DOMAIN sent' :
                   (sent'[k].to[1] = "rep" /\ sent'[k].shopperId = s) =>
                     sent'[k].type \notin {"sdp_answer", "ice_candidate",
                                           "call_ended_by_shopper"}
       /\ ShopperClose(c) =>
            \A s \in ShopperIds :
              (Has(callQueue, s) /\ Get(callQueue, s).shopperSocket = c) =>
                (Has(callQueue', s) /\ ~Get(callQueue', s).isConnected)]_vars

(* C31: the close of a shopper's connection changes only isConnected and   *)
(* disconnectedAt of the bound shopper's entry; a claim_call by a free     *)
(* representative on a disconnected, unassigned shopper succeeds and       *)
(* stores the assignment; and a join_queue of a disconnected shopper keeps *)
(* its assignedSalesRepId and connectedAt and sends it queue_joined but no *)
(* call_answered.                                                          *)
C31_DisconnectKeepsAssignment ==
  [][/\ \A c \in ShopperSocketIds :
          (shopperSockets[c].readyState \in {"OPEN", "CLOSING"} /\ ShopperClose(c)) =>
            LET current == shopperSockets[c].currentShopperId
            IN /\ Len(callQueue') = Len(callQueue)
               /\ \A i \in DOMAIN callQueue :
                    IF callQueue[i].shopperId = current
                      THEN callQueue'[i] = [callQueue[i] EXCEPT !.isConnected = FALSE,
                                                                !.disconnectedAt = now]
                      ELSE callQueue'[i] = callQueue[i]
     /\ \A c \in RepSocketIds, s \in ShopperIds :
          (/\ Has(callQueue, s)
           /\ ~Get(callQueue, s).isConnected
           /\ Get(callQueue, s).assignedSalesRepId = NoId
           /\ CurrentRep(c) # NoId
           /\ ~isSalesRepBusy(callQueue, CurrentRep(c))
           /\ ClaimCall(c, s)) =>
            /\ Get(callQueue', s).assignedSalesRepId = CurrentRep(c)
            /\ ~Get(callQueue', s).isConnected
            /\ Received(sent', ToRep(c), "call_claimed")
     /\ \A c \in ShopperSocketIds, s \in ShopperIds :
          (/\ Has(callQueue, s)
           /\ ~Get(callQueue, s).isConnected
           /\ JoinQueue(c, s)) =>
            /\ Get(callQueue', s).isConnected
            /\ Get(callQueue', s).assignedSalesRepId = Get(callQueue, s).assignedSalesRepId
            /\ Get(callQueue', s).connectedAt = Get(callQueue, s).connectedAt
            /\ Received(sent', ToShopper(c), "queue_joined")
            /\ \A k \in DOMAIN sent' : sent'[k].type # "call_answered"]_vars

(* a shopper whose connection closed has joined again on another           *)
(* connection and is assigned to a representative; the join was answered   *)
(* with queue_joined                                                       *)
C31_Witness ==
  \E c1, c2 \in ShopperSocketIds, s \in ShopperIds :
    /\ c1 # c2
    /\ shopperSockets[c1].readyState = "CLOSED"
    /\ shopperSockets[c1].currentShopperId = s
    /\ Has(callQueue, s)
    /\ Get(callQueue, s).shopperSocket = c2
    /\ Get(callQueue, s).isConnected
    /\ Get(callQueue, s).assignedSalesRepId # NoId
    /\ sent # <<>>
    /\ sent[1].to = ToShopper(c2)
    /\ sent[1].type = "queue_joined"

(* frame f is a call_answered to the connection of shopper s's entry       *)
(* naming representative r and carrying offer o                            *)
IsCallAnswered(f, s, r, o) ==
  /\ f.type = "call_answered"
  /\ f.to = ToShopper(Get(callQueue, s).shopperSocket)
  /\ f.salesRepId = r
  /\ f.sdpOffer = o

(* C32: a call_answered frame naming representative r is sent only by a    *)
(* successful claim_call of r on a shopper, to the connection of that      *)
(* shopper's entry, which is assigned to r when the frame is sent, and it  *)
(* carries the sdpOffer of the claim_call unchanged; on a successful claim *)
(* the claimer is sent call_claimed, the shopper (if its connection is     *)
(* open) call_answered, and every registered open representative a         *)
(* queue_update that shows the shopper assigned to r.  A move of the clock *)
(* runs no handler and sends nothing.                                      *)
C32_CallAnsweredOnlyByClaim ==
  [][/\ \A k \in DOMAIN sent' :
          (now' = now /\ sent'[k].type = "call_answered") =>
            \E c \in RepSocketIds, s \in ShopperIds, o \in SdpOffers :
              /\ CurrentRep(c) # NoId
              /\ assignSucceeds(callQueue, s, CurrentRep(c))
              /\ ClaimCallWith(c, s, o)
              /\ IsCallAnswered(sent'[k], s, CurrentRep(c), o)
              /\ Get(callQueue', s).assignedSalesRepId = CurrentRep(c)
     /\ \A c \in RepSocketIds, s \in ShopperIds, o \in SdpOffers :
          (/\ CurrentRep(c) # NoId
           /\ assignSucceeds(callQueue, s, CurrentRep(c))
           /\ ClaimCallWith(c, s, o)) =>
            /\ Received(sent', ToRep(c), "call_claimed")
            /\ ShopperOpen(Get(callQueue, s).shopperSocket) =>
                 \E k \in DOMAIN sent' : IsCallAnswered(sent'[k], s, CurrentRep(c), o)
            /\ \A i \in DOMAIN salesRepConnections :
                 RepOpen(salesRepConnections[i].socket) =>
                   \E k \in QueueUpdates(sent') :
                     /\ sent'[k].to = ToRep(salesRepConnections[i].socket)
                     /\ \E j \in DOMAIN sent'[k].queue :
                          /\ sent'[k].queue[j].shopperId = s
                          /\ sent'[k].queue[j].assignedSalesRepId = CurrentRep(c)]_vars

(* a claim_call carrying offerB has just succeeded: the shopper's open     *)
(* connection was sent call_answered with offerB, the claimer call_claimed *)
C32_Witness ==
  \E c \in RepSocketIds, s \in ShopperIds :
    /\ Len(sent) >= 3
    /\ Has(callQueue, s)
    /\ ShopperOpen(Get(callQueue, s).shopperSocket)
    /\ Get(callQueue, s).assignedSalesRepId = CurrentRep(c)
    /\ IsCallAnswered(sent[1], s, CurrentRep(c), "offerB")
    /\ sent[2] = Simple(ToRep(c), "call_claimed", s, CurrentRep(c))
    /\ sent[3].type = "queue_update"

(* frames contains a collaboration_status for (r, s) with this status,     *)
(* addressed to this connection                                            *)
StatusSent(frames, to, s, r, status) ==
  \E k \in DOMAIN frames :
    /\ frames[k].to = to
    /\ frames[k].type = "collaboration_status"
    /\ frames[k].shopperId = s
    /\ frames[k].salesRepId = r
    /\ frames[k].text = status

(* C33: whenever a collaboration_response moves the session of (r, s) from *)
(* pending to accepted or rejected, a collaboration_status frame with the  *)
(* new status is sent to the shopper s and, if r is registered on an open  *)
(* connection, to the representative r.                                    *)
C33_ResponseIsAnnounced ==
  [][\A c \in ShopperSocketIds, r \in RepIds :
       LET s == shopperSockets[c].currentShopperId
           key == getCollaborationKey(s, r)
           repSocket == getSalesRepSocket(salesRepConnections, r)
       IN (/\ s # NoId
           /\ respondSucceeds(collaborationSessions, s, r)
           /\ \E a \in BOOLEAN : CollaborationResponse(c, r, a)
           /\ collaborationSessions'[key].status \in {"accepted", "rejected"}) =>
            /\ StatusSent(sent', ToShopper(c), s, r, collaborationSessions'[key].status)
            /\ (repSocket # 0 /\ RepOpen(repSocket)) =>
                 StatusSent(sent', ToRep(repSocket), s, r, collaborationSessions'[key].status)]_vars

(* C34: whenever request_collaboration creates a pending session for       *)
(* (r, s), a collaboration_request frame naming r is sent to a connection  *)
(* of the shopper s and collaboration_status with status pending is sent   *)
(* to the requesting representative.                                       *)
C34_RequestIsDelivered ==
  [][\A c \in RepSocketIds, s \in ShopperIds :
       (/\ CurrentRep(c) # NoId
        /\ requestSucceeds(callQueue, collaborationSessions, s, CurrentRep(c))
        /\ RequestCollaboration(c, s)
        /\ collaborationSessions'[getCollaborationKey(s, CurrentRep(c))].status = "pending") =>
         /\ \E k \in DOMAIN sent' :
              /\ sent'[k].to[1] = "shopper"
              /\ sent'[k].type = "collaboration_request"
              /\ sent'[k].shopperId = s
              /\ sent'[k].salesRepId = CurrentRep(c)
         /\ StatusSent(sent', ToRep(c), s, CurrentRep(c), "pending")]_vars

(* C35: when the entry of a shopper assigned to representative r leaves    *)
(* the queue (evicted by the janitor, removed by leave_queue or by the     *)
(* REST routes), the assignment goes with it: afterwards r is not busy, a  *)
(* claim by r of any unassigned shopper would succeed, and the only frames *)
(* sent to representatives are queue_update frames.                        *)
C35_EvictionDropsAssignment ==
  [][\A s \in ShopperIds :
       (/\ Has(callQueue, s)
        /\ Get(callQueue, s).assignedSalesRepId # NoId
        /\ ~Has(callQueue', s)) =>
         LET r == Get(callQueue, s).assignedSalesRepId
         IN /\ ~isSalesRepBusy(callQueue', r)
            /\ \A o \in ShopperIds :
                 (Has(callQueue', o) /\ Get(callQueue', o).assignedSalesRepId = NoId) =>
                   assignSucceeds(callQueue', o, r)
            /\ \A k \in DOMAIN sent' :
                 sent'[k].to[1] = "rep" => sent'[k].type = "queue_update"]_vars

(* the janitor is about to evict a disconnected shopper that is assigned   *)
(* to a registered representative, while another shopper waits unassigned  *)
C35_Witness ==
  \E s, o \in ShopperIds, c \in RepSocketIds :
    /\ Idle
    /\ Has(callQueue, s)
    /\ ~Get(callQueue, s).isConnected
    /\ now - Get(callQueue, s).disconnectedAt > GraceMinutes * MsPerMinute
    /\ Registered(c)
    /\ Get(callQueue, s).assignedSalesRepId = CurrentRep(c)
    /\ Has(callQueue, o)
    /\ Get(callQueue, o).assignedSalesRepId = NoId

(* C36: a frame whose type is not recognised, on either channel, changes   *)
(* no table of the store, creates no entry for the shopper id it carries,  *)
(* triggers no queue_update and sends no frame to any other connection;    *)
(* the connection it came on stays as it was.                              *)
C36_UnknownTypeIsIgnored ==
  [][/\ \A c \in ShopperSocketIds, s \in ShopperIds :
          (ShopperOpen(c) /\ ShopperUnknownType(c, s)) =>
            /\ UNCHANGED storeVars
            /\ Has(callQueue', s) <=> Has(callQueue, s)
            /\ QueueUpdates(sent') = {}
            /\ \A k \in DOMAIN sent' : sent'[k].to = ToShopper(c)
            /\ shopperSockets' = shopperSockets
     /\ \A c \in RepSocketIds, s \in ShopperIds :
          (RepOpen(c) /\ RepUnknownType(c, s)) =>
            /\ UNCHANGED storeVars
            /\ Has(callQueue', s) <=> Has(callQueue, s)
            /\ QueueUpdates(sent') = {}
            /\ \A k \in DOMAIN sent' : sent'[k].to = ToRep(c)
            /\ repSockets' = repSockets]_vars

(* a frame has just been dropped without a reply while a shopper           *)
(* connection that never joined is open, the queue is empty and a          *)
(* representative is registered                                            *)
C36_Witness ==
  \E c \in ShopperSocketIds, d \in RepSocketIds :
    /\ ShopperOpen(c)
    /\ shopperSockets[c].currentShopperId = NoId
    /\ callQueue = <<>>
    /\ Registered(d)
    /\ sent = <<>>
    /\ steps > MaxSteps - LiveSteps + 4

(* C37: a representative registered on an open connection stays            *)
(* registered on it.  If the registry binds r to connection c and c is     *)
(* open before and after a step, then after the step the registry still    *)
(* binds r to c, unless the step is a connect frame for r on another       *)
(* connection, which then holds the registration.                          *)
C37_LiveRepStaysRegistered ==
  [][\A c \in RepSocketIds, r \in RepIds :
       (/\ getSalesRepSocket(salesRepConnections, r) = c
        /\ RepOpen(c)
        /\ repSockets'[c].readyState = "OPEN") =>
         \/ getSalesRepSocket(salesRepConnections', r) = c
         \/ \E d \in RepSocketIds \ {c} :
              /\ Connect(d, r)
              /\ getSalesRepSocket(salesRepConnections', r) = d]_vars

(* C38: a release_call frame from representative r changes the assignment  *)
(* of shopper s only if s is assigned to r; a release_call naming a        *)
(* shopper assigned to a different representative leaves the assignment in *)
(* place and sends no call_released frame to the shopper.                  *)
C38_ReleaseOnlyByOwner ==
  [][\A c \in RepSocketIds, s \in ShopperIds :
       (/\ CurrentRep(c) # NoId
        /\ Has(callQueue, s)
        /\ Get(callQueue, s).assignedSalesRepId \notin {NoId, CurrentRep(c)}
        /\ ReleaseCall(c, s)) =>
         /\ Get(callQueue', s).assignedSalesRepId = Get(callQueue, s).assignedSalesRepId
         /\ \A k \in DOMAIN sent' :
              sent'[k].to[1] = "shopper" => sent'[k].type # "call_released"]_vars

(* C39: a claim_call by representative r on a shopper that is already      *)
(* assigned to r succeeds: r is sent call_claimed and no error although r  *)
(* is busy with that shopper, and every shopper entry is left unchanged.   *)
C39_ClaimIsIdempotentForOwner ==
  [][\A c \in RepSocketIds, s \in ShopperIds :
       (/\ CurrentRep(c) # NoId
        /\ Has(callQueue, s)
        /\ Get(callQueue, s).assignedSalesRepId = CurrentRep(c)
        /\ ClaimCall(c, s)) =>
         /\ isSalesRepBusy(callQueue, CurrentRep(c))
         /\ callQueue' = callQueue
         /\ Received(sent', ToRep(c), "call_claimed")
         /\ \A k \in DOMAIN sent' : sent'[k].type # "error"]_vars

(* within seven steps a representative has asked its shopper for           *)
(* collaboration, which takes the assignment, and its claim_call of the    *)
(* same shopper has then been confirmed                                    *)
C39_Witness ==
  \E c \in RepSocketIds, s \in ShopperIds :
    /\ steps <= 7
    /\ CurrentRep(c) # NoId
    /\ HasSession(collaborationSessions, s, CurrentRep(c))
    /\ Has(callQueue, s)
    /\ Get(callQueue, s).assignedSalesRepId = CurrentRep(c)
    /\ \E k \in DOMAIN sent : sent[k] = Simple(ToRep(c), "call_claimed", s, CurrentRep(c))

(* the session of (r, s) is pending and was requested early enough for the *)
(* sampled clock to pass the end of its TTL                                *)
PendingWithinClock(s, r) ==
  /\ SessionStatus(collaborationSessions, s, r) = "pending"
  /\ \E t \in Instants :
       t - collaborationSessions[getCollaborationKey(s, r)].requestedAt > CollabExpireMs

(* C40: no collaboration session stays pending forever.  Under fair clock  *)
(* and janitor ticks a pending session is eventually accepted, rejected,   *)
(* ended or deleted, and from then on a representative still assigned to   *)
(* the shopper can issue request_collaboration for it successfully.        *)
C40_PendingSessionEventuallyEnds ==
  \A s \in ShopperIds, r \in RepIds :
    PendingWithinClock(s, r) ~>
      /\ SessionStatus(collaborationSessions, s, r) # "pending"
      /\ AssignedRepOf(callQueue, s) = r =>
           requestSucceeds(callQueue, collaborationSessions, s, r)

(* the clients have stopped while a request of a registered representative *)
(* to its assigned shopper is still pending, past its TTL                  *)
C40_Witness ==
  \E c \in RepSocketIds, s \in ShopperIds :
    /\ steps = MaxSteps
    /\ Registered(c)
    /\ AssignedRepOf(callQueue, s) = CurrentRep(c)
    /\ SessionStatus(collaborationSessions, s, CurrentRep(c)) = "pending"
    /\ now - collaborationSessions[getCollaborationKey(s, CurrentRep(c))].requestedAt
         > CollabExpireMs

====
